---- MODULE Spec2Model ----
(***************************************************************************)
(* Session concurrency and message routing of MyAgentive.                  *)
(*                                                                         *)
(* Spec          one ManagedSession (src/server/core/session-manager.ts)   *)
(*               driving AgentSession instances (src/server/core/          *)
(*               ai-client.ts), with its subscribers and the persistence   *)
(*               it writes to.                                             *)
(* SpecOverlap   a third sendMessage, against engines that keep running.   *)
(* SpecFanout    Spec with subscribers whose callbacks may throw.          *)
(* SpecDispatch  Spec plus an AgentSession.sendMessage that raises, the    *)
(*               case the catch block of ManagedSession.sendMessage is     *)
(*               written for.                                              *)
(* SpecLive      Spec with the fairness the event loop gives: a timer that *)
(*               was armed fires.                                          *)
(* SpecRegistry  the SessionManager registry over sessionRepo.             *)
(* SpecStop      SessionManager.stopGeneration in front of one             *)
(*               conversation.                                             *)
(* SpecOutbox    Spec with files appearing under the media directory.      *)
(* SpecLifecycle the registry with archive, pin, rename and delete.        *)
(* SpecSend      SessionManager.sendMessage for a client that subscribes   *)
(*               while conversations are deleted and cleaned up.           *)
(* SpecThreads   the Telegram subscription of a chat, its sends in flight  *)
(*               and the message-to-session table (src/server/telegram/    *)
(*               subscription-manager.ts).                                 *)
(* SpecFragments the FragmentBuffer (src/server/telegram/                  *)
(*               fragment-buffer.ts) with its timeouts and a clock.        *)
(* SpecBursts    the text handler of the bot in front of the               *)
(*               FragmentBuffer (src/server/telegram/handlers/             *)
(*               message-handler.ts).                                      *)
(* SpecMedia     the MediaGroupBuffer with its timeouts and the clock.     *)
(* SpecTracker   the UpdateTracker of the deduplication middleware.        *)
(* SpecReply     the ReplyModeManager.                                     *)
(* SpecResponses the active responses of the Telegram subscriptions, their *)
(*               timeouts and the handlers suspended in an await.          *)
(* SpecClosed    SpecLive with the engine ending the output of a closed    *)
(*               AgentSession.                                             *)
(* SpecSubscribers the registry with its subscribers, failing callbacks,   *)
(*               archive, delete and cleanup.                              *)
(* SpecShutdown  a conversation closed by the registry during its turns.   *)
(* SpecPrefix    ManagedSession.sendMessage failing before the content is  *)
(*               forwarded.                                                *)
(* SpecShared    two conversations over the one media directory.           *)
(*                                                                         *)
(* The process is single-threaded: code between two awaits runs without    *)
(* interleaving, so one action is one such segment, including every call   *)
(* it makes.                                                               *)
(***************************************************************************)
EXTENDS Integers, Sequences, FiniteSets, TLC

\* ---------------------------------------------------------------- bounds
MaxSends == 3
MaxFaults == 1
MaxBlocks == 2
MaxTurnEvents == 1
MaxStops == 1

Clients == {"c1", "c2"}
Tokens == {"t1", "t2"}
Null == "null"
sessionName == "default"

\* config.mediaPath and the files that may appear under it, as path segments
\* in the order scanDirectory lists them.
mediaPath == <<"media">>
FilesInOrder == << <<"media", "f1">>, <<"media", "sub", "f2">> >>

\* Names handed to the registry, as sequences of characters.
MaxSessions == 2
MaxRows == 2
MaxInbox == 1
MaxTelegramSends == 2
MaxAdds == 3
MaxTime == 1500
MaxMediaAdds == 3
MaxUpdates == 6
maxSize == 2
MaxReplyCalls == 5
MaxResponses == 3
MaxHandlers == 3
Names ==
  { <<"A", " ", "b">>, <<"a", "-", "b">>, <<"a", "_", "_", "b">>, <<"a", "!", "b">>,
    <<"a", "b">>, <<" ", "a", "b", " ">>, <<"A", "B">>, <<"-", "a">> }

\* The names the lifecycle calls are made with: one that is its own slug
\* and one that is not; with them the empty name; and what
\* generateSessionName may draw for an empty name.
RowNames == { <<"a", "b">>, <<"A", "B">> }
LifeNames == RowNames \cup { <<>> }
GeneratedNames == { <<"f", "o", "x", "-", "1">>, <<"o", "w", "l", "-", "2">> }

VARIABLES
  isProcessing,     \* ManagedSession.isProcessing
  isListening,      \* ManagedSession.isListening
  isResetting,      \* ManagedSession.isResetting
  sdkSessionId,     \* ManagedSession.sdkSessionId (resume token in memory)
  agentSession,     \* ManagedSession.agentSession: index into engines
  engines,          \* every AgentSession constructed so far
  loops,            \* startListening calls suspended in outputIterator.next()
  stops,            \* stopGeneration calls suspended in queryInstance.interrupt()
  resetOwner,       \* the caller suspended in the delay of resetAgentSession
  subscribers,      \* ManagedSession.subscribers, in Map insertion order
  messages,         \* rows of the messages table of this conversation
  dbSdkSessionId,   \* sessions.sdk_session_id of this conversation
  mediaDir,         \* the files under config.mediaPath
  mediaSnapshotBeforeMessage,  \* ManagedSession.mediaSnapshotBeforeMessage
  log,              \* history: the broadcasts made by the segment that ran last
  hist,             \* history: calls and faults so far, stream ends, who heard which turn
  last,             \* history: the segment that ran last and the state before it
  sessions,         \* SessionManager.sessions: name -> ManagedSession
  clientSessions,   \* SessionManager.clientSessions: clientId -> name
  dbSessions,       \* rows of the sessions table
  regLast,          \* history: the registry call made last
  messageSessions,  \* rows of the telegram_message_sessions table
  telegram,         \* TelegramSubscriptionManager.subscriptions and its calls
                    \* suspended in bot.api.sendMessage
  deletedNames,     \* history: the names deleteSession was called with
  buffers,          \* FragmentBuffer.buffers: chatId -> BufferedMessage
  timers,           \* the timeouts set and neither cleared nor run
  clock,            \* Date.now(), in milliseconds
  fbHist,           \* history: fragments arrived, flush callbacks, the call made last
  handler,          \* message-handler.ts: bufferedContexts, the processMessage
                    \* calls suspended in an await, and what they forwarded
  mediaGroups,      \* MediaGroupBuffer.groups, its timeouts, and the history of
                    \* items arrived and flush callbacks made
  updateTracker,    \* UpdateTracker.processedIds and orderedIds, the ids
                    \* inserted and hit since the last clear, the last call
  replyMode,        \* ReplyModeManager.contexts and mode, what was recorded per
                    \* chat since its last reset or clear, the last call
  responses         \* TelegramSubscriptionManager: the activeResponse of each
                    \* subscription, the response timeouts pending, the
                    \* handlers suspended in an await, the turns in progress
VARIABLE
  outbox            \* two ManagedSessions over one config.mediaPath: the files
                    \* under it, each one's snapshot and Processing flag, and
                    \* the history of who wrote and who announced which file

convVars == <<isProcessing, isListening, isResetting, sdkSessionId, agentSession,
              engines, loops, stops, resetOwner, subscribers, messages,
              dbSdkSessionId, mediaDir, mediaSnapshotBeforeMessage, log, hist, last>>
regVars == <<sessions, clientSessions, dbSessions, regLast, messageSessions,
            telegram, deletedNames>>
fbVars == <<buffers, timers, clock, fbHist, handler>>
auxVars == <<mediaGroups, updateTracker, replyMode, responses, outbox>>
vars == <<convVars, regVars, fbVars, auxVars>>

\* ------------------------------------------------------------- utilities
Range(f) == {f[i] : i \in DOMAIN f}

RemoveAt(seq, i) == [j \in 1..(Len(seq) - 1) |-> IF j < i THEN seq[j] ELSE seq[j + 1]]

\* The state of the conversation as one record, so that a segment of code is
\* a composition of functions on it.
Cur ==
  [isProcessing |-> isProcessing, isListening |-> isListening,
   isResetting |-> isResetting, sdkSessionId |-> sdkSessionId,
   agentSession |-> agentSession, engines |-> engines, loops |-> loops,
   stops |-> stops, resetOwner |-> resetOwner, subscribers |-> subscribers,
   messages |-> messages, dbSdkSessionId |-> dbSdkSessionId,
   mediaDir |-> mediaDir, mediaSnapshotBeforeMessage |-> mediaSnapshotBeforeMessage,
   log |-> <<>>, hist |-> hist]

\* What a claim needs of the state a segment started from.
Snap(s) ==
  [isProcessing |-> s.isProcessing, sdkSessionId |-> s.sdkSessionId,
   dbSdkSessionId |-> s.dbSdkSessionId, agentSession |-> s.agentSession,
   closed |-> s.engines[s.agentSession].closed, owner |-> s.resetOwner.kind,
   ended |-> s.hist.ended, subscribers |-> s.subscribers,
   stops |-> Len(s.stops)]

\* Turn t -> the clients whose callback got the user_message of turn t and
\* that have been subscribed ever since.
Heard(s) ==
  LET now == Range(s.subscribers)
      new == {i \in DOMAIN s.log : s.log[i].ev.type = "user_message"}
  IN [t \in DOMAIN s.hist.heard \cup {s.log[i].ev.content : i \in new} |->
        IF t \in DOMAIN s.hist.heard
          THEN s.hist.heard[t] \cap now
          ELSE s.log[CHOOSE i \in new : s.log[i].ev.content = t].called \cap now]

Commit(s, op, arg) ==
  /\ isProcessing' = s.isProcessing
  /\ isListening' = s.isListening
  /\ isResetting' = s.isResetting
  /\ sdkSessionId' = s.sdkSessionId
  /\ agentSession' = s.agentSession
  /\ engines' = s.engines
  /\ loops' = s.loops
  /\ stops' = s.stops
  /\ resetOwner' = s.resetOwner
  /\ subscribers' = s.subscribers
  /\ messages' = s.messages
  /\ dbSdkSessionId' = s.dbSdkSessionId
  /\ mediaDir' = s.mediaDir
  /\ mediaSnapshotBeforeMessage' = s.mediaSnapshotBeforeMessage
  /\ log' = s.log
  /\ hist' = [s.hist EXCEPT !.heard = Heard(s)]
  /\ last' = [op |-> op, arg |-> arg, pre |-> Snap(Cur)]
  /\ UNCHANGED <<regVars, fbVars, auxVars>>

\* ---------------------------------------------------------- AgentSession
\* new AgentSession({resumeSessionId}): the query starts with an empty queue.
\* queue: the user turns pushed and not yet completed by a result;
\* turnEvents: messages the output iterator has yielded for the head turn;
\* stream: "live", "ended" (next() answers done), "failed" (next() rejects).
AgentSession_new(resume) ==
  [closed |-> FALSE, resume |-> resume, queue |-> <<>>, turnEvents |-> 0,
   stream |-> "live"]

\* AgentSession.sendMessage without its test of closed
AgentSession_sendMessage_unguarded(s, e, content) ==
  [s EXCEPT !.engines[e].queue = Append(@, content)]

\* AgentSession.sendMessage: pushes unless closed.
AgentSession_sendMessage(s, e, content) ==
  IF ~s.engines[e].closed
    THEN [s EXCEPT !.engines[e].queue = Append(@, content)]
    ELSE s

\* AgentSession.close
AgentSession_close(s, e) == [s EXCEPT !.engines[e].closed = TRUE]

\* ------------------------------------------------------- ManagedSession
\* messageRepo.create
messageRepo_create(s, role, content) ==
  [s EXCEPT !.messages = Append(@, [role |-> role, content |-> content, media |-> <<>>])]

InStore(s, role, content) ==
  \E i \in DOMAIN s.messages :
     s.messages[i].role = role /\ s.messages[i].content = content

\* What a subscriber that reads the history inside its callback finds for the
\* event it is handed.
FoundInHistory(s, ev) ==
  CASE ev.type = "user_message" -> InStore(s, "user", ev.content)
    [] ev.type = "assistant_message" -> InStore(s, "assistant", ev.content)
    [] OTHER -> TRUE

\* broadcast without its try/catch: the first callback that throws ends the
\* iteration, nobody is deleted.
broadcast_uncaught(s, ev, F) ==
  LET subs == s.subscribers
      n == IF \E i \in DOMAIN subs : subs[i] \in F
             THEN CHOOSE i \in DOMAIN subs :
                    subs[i] \in F /\ \A j \in 1..(i - 1) : subs[j] \notin F
             ELSE Len(subs)
      called == {subs[i] : i \in 1..n}
  IN [s EXCEPT !.log = Append(@, [ev |-> ev, called |-> called,
                                  threw |-> called \cap F,
                                  found |-> FoundInHistory(s, ev)])]

\* ManagedSession.broadcast: every subscriber's callback is called in Map
\* order; F are the clients whose callback throws, they are deleted.
broadcast(s, ev, F) ==
  [s EXCEPT
     !.subscribers = SelectSeq(@, LAMBDA c : c \notin F),
     !.log = Append(@, [ev |-> ev,
                        called |-> Range(s.subscribers),
                        threw |-> Range(s.subscribers) \cap F,
                        found |-> FoundInHistory(s, ev)])]

\* ManagedSession.broadcastError: the error event has no sessionName.
broadcastError(s, error, F) ==
  broadcast(s, [type |-> "error", error |-> error], F)

\* ManagedSession.markProcessingComplete
markProcessingComplete(s) == [s EXCEPT !.isProcessing = FALSE]

\* storeAndBroadcastAssistant with the broadcast before the write.
storeAndBroadcastAssistant_late(s, content, F) ==
  messageRepo_create(
    broadcast(s, [type |-> "assistant_message", content |-> content,
                  sessionName |-> sessionName], F),
    "assistant", content)

\* ManagedSession.storeAndBroadcastAssistant
storeAndBroadcastAssistant(s, content, F) ==
  broadcast(messageRepo_create(s, "assistant", content),
            [type |-> "assistant_message", content |-> content,
             sessionName |-> sessionName], F)

\* ManagedSession.broadcastContextIfAvailable: only a result message with a
\* positive token count gives a context_update.
broadcastContextIfAvailable(s, m, F) ==
  IF m.type # "result" \/ ~m.usage
    THEN s
    ELSE broadcast(s, [type |-> "context_update", sessionName |-> sessionName,
                       src |-> <<m.turn, m.seq, 0>>], F)

\* handleBlocks walking the blocks from the last to the first.
RECURSIVE handleBlocks_reversed(_, _, _, _)
handleBlocks_reversed(s, m, k, F) ==
  IF k > Len(m.content)
    THEN s
    ELSE LET s1 == handleBlocks_reversed(s, m, k + 1, F)
             block == m.content[k]
         IN CASE block = "text" ->
                   storeAndBroadcastAssistant(s1, <<m.turn, m.seq, k>>, F)
              [] block = "tool_use" ->
                   broadcast(s1, [type |-> "tool_use", toolId |-> <<m.turn, m.seq, k>>,
                                  sessionName |-> sessionName], F)
              [] OTHER -> s1

\* The loop over the content blocks of an assistant message, from block k on.
RECURSIVE handleBlocks(_, _, _, _)
handleBlocks(s, m, k, F) ==
  IF k > Len(m.content)
    THEN s
    ELSE LET block == m.content[k]
             s1 == CASE block = "text" ->
                          storeAndBroadcastAssistant(s, <<m.turn, m.seq, k>>, F)
                     [] block = "tool_use" ->
                          broadcast(s, [type |-> "tool_use", toolId |-> <<m.turn, m.seq, k>>,
                                        sessionName |-> sessionName], F)
                     [] OTHER -> s
         IN handleBlocks(s1, m, k + 1, F)

\* ManagedSession.snapshotMediaDirectory
snapshotMediaDirectory(s) == [s EXCEPT !.mediaSnapshotBeforeMessage = s.mediaDir]

\* ManagedSession.findNewMediaFiles: the files of the directory that are not
\* in the snapshot, in scan order.
findNewMediaFiles(s) ==
  LET IsNew(f) == f \in s.mediaDir /\ f \notin s.mediaSnapshotBeforeMessage
  IN SelectSeq(FilesInOrder, IsNew)

\* The web URL of a delivered file: /api/media/ and the path below mediaPath,
\* or the base name when the file is not below it.
webUrl(filePath) ==
  <<"api", "media">> \o
    (IF Len(filePath) >= Len(mediaPath) /\ SubSeq(filePath, 1, Len(mediaPath)) = mediaPath
       THEN SubSeq(filePath, Len(mediaPath) + 1, Len(filePath))
       ELSE <<filePath[Len(filePath)]>>)

\* The outbox loop of a successful result: one file_delivery per new file,
\* from file j of newFiles on.
RECURSIVE deliverFiles(_, _, _, _, _)
deliverFiles(s, m, newFiles, j, F) ==
  IF j > Len(newFiles)
    THEN s
    ELSE deliverFiles(
           broadcast(s, [type |-> "file_delivery", filePath |-> newFiles[j],
                         filename |-> newFiles[j][Len(newFiles[j])],
                         webUrl |-> webUrl(newFiles[j]),
                         sessionName |-> sessionName,
                         src |-> <<m.turn, m.seq, 1 + j>>], F),
           m, newFiles, j + 1, F)

\* The entry of deliveredFiles for a file.
deliveredFile(filePath) ==
  [filename |-> filePath[Len(filePath)], webUrl |-> webUrl(filePath)]

\* The merge without its test of webUrl: every delivered file is pushed.
mergeMedia_pushesAll(allMedia, deliveredFiles) == allMedia \o deliveredFiles

\* allMedia after the loop over deliveredFiles: a file is pushed unless an
\* entry of allMedia has its webUrl.
RECURSIVE mergeMedia(_, _)
mergeMedia(allMedia, deliveredFiles) ==
  IF deliveredFiles = <<>>
    THEN allMedia
    ELSE LET file == Head(deliveredFiles)
         IN mergeMedia(IF \E i \in DOMAIN allMedia : allMedia[i].webUrl = file.webUrl
                         THEN allMedia
                         ELSE Append(allMedia, file),
                       Tail(deliveredFiles))

\* messageRepo.updateMetadata on the last assistant message, if there is
\* one: the delivered files are merged into mediaFiles, one entry per webUrl.
persistDelivered(s, newFiles) ==
  LET rows == {i \in DOMAIN s.messages : s.messages[i].role = "assistant"}
  IN IF newFiles = <<>> \/ rows = {}
       THEN s
       ELSE LET lastMessage == CHOOSE i \in rows : \A j \in rows : j <= i
            IN [s EXCEPT !.messages[lastMessage].media =
                           mergeMedia(@, [j \in DOMAIN newFiles |->
                                            deliveredFile(newFiles[j])])]

\* ManagedSession.handleSDKMessage
handleSDKMessage(s, m, F) ==
  LET s1 == IF m.type = "system" /\ m.subtype = "init" /\ m.session_id # Null
                 /\ s.sdkSessionId # m.session_id
              THEN [s EXCEPT !.sdkSessionId = m.session_id,
                             !.dbSdkSessionId = m.session_id]
              ELSE s
      s2 == broadcastContextIfAvailable(s1, m, F)
      s3 == IF m.type = "system" /\ m.subtype = "status" /\ m.status = "compacting"
              THEN broadcast(s2, [type |-> "compacting", sessionName |-> sessionName,
                                  src |-> <<m.turn, m.seq, 1>>], F)
              ELSE s2
      s4 == IF m.type = "system" /\ m.subtype = "compact_boundary"
              THEN broadcast(s3, [type |-> "compacted", sessionName |-> sessionName,
                                  src |-> <<m.turn, m.seq, 1>>], F)
              ELSE s3
  IN IF m.type = "assistant"
       THEN IF m.form = "string"
              THEN storeAndBroadcastAssistant(s4, <<m.turn, m.seq, 1>>, F)
              ELSE handleBlocks(s4, m, 1, F)
       ELSE IF m.type = "result"
         THEN LET s5 == broadcast(s4, [type |-> "result",
                                       success |-> (m.subtype = "success"),
                                       sessionName |-> sessionName,
                                       src |-> <<m.turn, m.seq, 1>>], F)
                  s6 == IF m.subtype = "success"
                          THEN persistDelivered(
                                 deliverFiles(s5, m, findNewMediaFiles(s5), 1, F),
                                 findNewMediaFiles(s5))
                          ELSE s5
              IN markProcessingComplete(s6)
         ELSE s4

\* The finally block of ManagedSession.startListening.
listeningFinally(s) ==
  [s EXCEPT !.isListening = FALSE, !.isProcessing = FALSE, !.hist.ended = TRUE]

\* ManagedSession.startListening up to its first suspension: the generator of
\* getOutputStream returns at once when the AgentSession is closed, otherwise
\* the call is suspended in outputIterator.next().
startListening(s) ==
  IF s.isListening
    THEN s
    ELSE IF s.engines[s.agentSession].closed
      THEN listeningFinally([s EXCEPT !.isListening = TRUE])
      ELSE [s EXCEPT !.isListening = TRUE, !.loops = Append(@, s.agentSession)]

\* ManagedSession.resetAgentSession up to its delay; the caller (owner) stays
\* suspended in it.  Only called when ~s.isResetting (see resetSkipped).
resetSkipped(s) == s.isResetting

resetBegin(s, owner) ==
  [AgentSession_close(s, s.agentSession) EXCEPT
     !.isResetting = TRUE, !.resetOwner = owner]

\* resetAgentSession that starts the new AgentSession from scratch.
resetEnd_noResume(s) ==
  [s EXCEPT !.engines = Append(@, AgentSession_new(Null)),
            !.agentSession = Len(s.engines) + 1,
            !.isListening = FALSE,
            !.isResetting = FALSE,
            !.resetOwner = [kind |-> "none", content |-> 0]]

\* ManagedSession.resetAgentSession after its delay.
resetEnd(s) ==
  [s EXCEPT !.engines = Append(@, AgentSession_new(s.sdkSessionId)),
            !.agentSession = Len(s.engines) + 1,
            !.isListening = FALSE,
            !.isResetting = FALSE,
            !.resetOwner = [kind |-> "none", content |-> 0]]

NoOwner == [kind |-> "none", content |-> 0]

\* ------------------------------------------------------------ the engine
\* The messages the engine may emit next on AgentSession e: it works on the
\* head of its queue, emits init, assistant and compaction messages and
\* closes the turn with a result.  A message is identified by its turn (the
\* number of the sendMessage call) and its position seq in the turn.
Blocks == {"text", "tool_use"}
BlockSeqs == UNION {[1..n -> Blocks] : n \in 1..MaxBlocks}

Msg(e, en, type, subtype, status, sid, form, content, usage) ==
  [type |-> type, subtype |-> subtype, status |-> status, session_id |-> sid,
   form |-> form, content |-> content, usage |-> usage,
   eng |-> e, seq |-> en.turnEvents + 1, turn |-> Head(en.queue)]

EngineMessages(e, en) ==
  IF en.stream # "live" \/ en.queue = <<>>
    THEN {}
    ELSE (IF en.turnEvents < MaxTurnEvents
            THEN {Msg(e, en, "system", "init", Null, sid, "none", <<>>, FALSE) : sid \in Tokens}
                 \cup {Msg(e, en, "assistant", Null, Null, Null, "array", c, FALSE) : c \in BlockSeqs}
                 \cup {Msg(e, en, "assistant", Null, Null, Null, "string", <<"text">>, FALSE)}
                 \cup {Msg(e, en, "system", "status", "compacting", Null, "none", <<>>, FALSE)}
                 \cup {Msg(e, en, "system", "compact_boundary", Null, Null, "none", <<>>, FALSE)}
            ELSE {})
         \cup
         {Msg(e, en, "result", st, Null, Null, "none", <<>>, u) :
            st \in {"success", "error_during_execution"}, u \in BOOLEAN}

\* The engine after it emitted m.
EngineAfter(en, m) ==
  IF m.type = "result"
    THEN [en EXCEPT !.queue = Tail(@), !.turnEvents = 0]
    ELSE [en EXCEPT !.turnEvents = @ + 1]

\* --------------------------------------------------------------- actions
ConvInit ==
  /\ isProcessing = FALSE
  /\ isListening = FALSE
  /\ isResetting = FALSE
  /\ sdkSessionId \in {Null} \cup Tokens
  /\ dbSdkSessionId = sdkSessionId
  /\ agentSession = 1
  /\ engines = <<AgentSession_new(sdkSessionId)>>
  /\ loops = <<>>
  /\ stops = <<>>
  /\ resetOwner = NoOwner
  /\ subscribers = <<>>
  /\ messages = <<>>
  /\ mediaDir = {}
  /\ mediaSnapshotBeforeMessage = {}
  /\ log = <<>>
  /\ hist = [sends |-> 0, faults |-> 0, ended |-> FALSE, heard |-> <<>>, snaps |-> <<>>,
             closed |-> FALSE]
  /\ last = [op |-> "new", arg |-> 0, pre |-> Snap(Cur)]

Count(s, c) ==
  IF c = "sends"
    THEN [s EXCEPT !.hist.sends = @ + 1, !.hist.ended = FALSE]
    ELSE [s EXCEPT !.hist.faults = @ + 1]

\* ManagedSession.subscribe: Map.set keeps the position of an existing key.
subscribe(c) ==
  /\ Commit([Cur EXCEPT !.subscribers =
                           IF c \in Range(@) THEN @ ELSE Append(@, c)],
            "subscribe", 0)

\* ManagedSession.unsubscribe
unsubscribe(c) ==
  /\ c \in Range(subscribers)
  /\ Commit([Cur EXCEPT !.subscribers = SelectSeq(@, LAMBDA d : d # c)],
            "unsubscribe", 0)

\* ManagedSession.close, as archiveSession, deleteSession and cleanup call it
\* before they drop the state from the registry.
ManagedSession_close(s) ==
  [AgentSession_close(s, s.agentSession) EXCEPT !.hist.closed = TRUE]

callClose ==
  /\ ~hist.closed
  /\ Commit(ManagedSession_close(Cur), "close", 0)

\* ManagedSession.sendMessage from the busy check to the broadcast of the
\* user message; content is the number of the call.
sendMessagePrefix(s, content, F) ==
  broadcast(messageRepo_create(
              snapshotMediaDirectory(
                [s EXCEPT !.isProcessing = TRUE,
                          !.hist.snaps = (content :> s.mediaDir) @@ @]),
              "user", content),
            [type |-> "user_message", content |-> content,
             sessionName |-> sessionName, source |-> "web"], F)

\* ManagedSession.sendMessage in which snapshotMediaDirectory (stage
\* "snapshot": readdirSync raises) or messageRepo.create (stage "create")
\* raises: the exception leaves through the empty finally.
sendMessageFails(stage) ==
  /\ hist.sends < MaxSends
  /\ hist.faults < MaxFaults
  /\ ~isProcessing
  /\ LET s == Count(Count(Cur, "sends"), "faults")
         s1 == [s EXCEPT !.isProcessing = TRUE]
     IN Commit(IF stage = "create" THEN snapshotMediaDirectory(s1) ELSE s1,
               "sendMessageFailed", s.hist.sends)

\* The engine's tools, or anything else, write a file under mediaPath.
fileAppears(f) ==
  /\ f \notin mediaDir
  /\ Commit([Cur EXCEPT !.mediaDir = @ \cup {f}], "fileAppears", 0)

\* ManagedSession.sendMessage, AgentSession.sendMessage returning normally.
sendMessage(F) ==
  /\ hist.sends < MaxSends
  /\ LET s == Count(Cur, "sends")
         content == s.hist.sends
     IN IF s.isProcessing
          THEN Commit(broadcastError(s, "busy", F), "sendMessage", content)
          ELSE LET s1 == sendMessagePrefix(s, content, F)
                   s2 == AgentSession_sendMessage(s1, s1.agentSession, content)
               IN Commit(startListening(s2), "sendMessage", content)

\* One turn of the for-await loop of startListening: outputIterator.next()
\* yields m, handleSDKMessage runs, and the generator of getOutputStream
\* tests `closed` before it asks for the next message.
loopNextValue(i, m, F) ==
  /\ i \in DOMAIN loops
  /\ m \in EngineMessages(loops[i], engines[loops[i]])
  /\ LET e == loops[i]
         s1 == [Cur EXCEPT !.engines[e] = EngineAfter(@, m)]
         s2 == handleSDKMessage(s1, m, F)
     IN Commit(IF s2.engines[e].closed
                 THEN listeningFinally([s2 EXCEPT !.loops = RemoveAt(@, i)])
                 ELSE s2,
               "handleSDKMessage", m.seq)

\* outputIterator.next() answers done: the loop ends without an exception.
loopNextDone(i) ==
  /\ i \in DOMAIN loops
  /\ engines[loops[i]].stream = "ended"
  /\ Commit(listeningFinally([Cur EXCEPT !.loops = RemoveAt(@, i)]),
            "streamDone", loops[i])

\* outputIterator.next() rejects: the catch block of startListening, up to
\* the delay of resetAgentSession (or through finally when a reset is
\* already in progress).
loopNextThrows(i, F) ==
  /\ i \in DOMAIN loops
  /\ engines[loops[i]].stream = "failed"
  /\ LET e == loops[i]
         s1 == [Cur EXCEPT !.engines[e].stream = "ended", !.loops = RemoveAt(@, i)]
         s2 == broadcastError(s1, "stream", F)
         s3 == [s2 EXCEPT !.sdkSessionId = Null, !.dbSdkSessionId = Null]
     IN Commit(IF resetSkipped(s3)
                 THEN listeningFinally(s3)
                 ELSE resetBegin(s3, [kind |-> "loop", content |-> 0]),
               "streamThrew", e)

\* The engine's stream comes to its end (the process exits, the input ended).
engineEnds(e) ==
  /\ e \in DOMAIN engines
  /\ e = agentSession \/ e \in Range(loops)
  /\ engines[e].stream = "live"
  /\ Commit([Cur EXCEPT !.engines[e].stream = "ended"], "engineEnds", e)

\* The engine fails: the next outputIterator.next() rejects.
engineCrashes(e) ==
  /\ e \in DOMAIN engines
  /\ e = agentSession \/ e \in Range(loops)
  /\ engines[e].stream = "live"
  /\ hist.faults < MaxFaults
  /\ Commit([Count(Cur, "faults") EXCEPT !.engines[e].stream = "failed"],
            "engineCrashes", e)

\* The 100 ms timer of resetAgentSession fires for a reset started by the
\* catch block of startListening or by stopGeneration; the caller goes on.
resetTimerFires ==
  /\ resetOwner.kind \in {"loop", "stop"}
  /\ LET s1 == resetEnd(Cur)
     IN Commit(IF resetOwner.kind = "loop" THEN listeningFinally(s1) ELSE s1,
               "resetDone", 0)

\* ManagedSession.stopGeneration without its guard on isProcessing.
stopGeneration_unguarded ==
  /\ Len(stops) < MaxStops
  /\ LET s == Cur
     IN IF s.engines[s.agentSession].closed
          THEN Commit(s, "stopGeneration", "true")
          ELSE Commit([s EXCEPT !.stops = Append(@, s.agentSession)],
                      "stopGeneration", "pending")

\* ManagedSession.stopGeneration up to `await agentSession.interrupt()`;
\* AgentSession.interrupt returns at once on a closed session.
stopGeneration ==
  /\ Len(stops) < MaxStops
  /\ LET s == Cur
     IN IF ~s.isProcessing
          THEN Commit(s, "stopGeneration", "false")
          ELSE IF s.engines[s.agentSession].closed
            THEN Commit(s, "stopGeneration", "true")
            ELSE Commit([s EXCEPT !.stops = Append(@, s.agentSession)],
                        "stopGeneration", "pending")

\* What the call of ManagedSession.stopGeneration that ended in the segment
\* that ran last returned ("none": no call ended in it).
stopGenerationReturned ==
  CASE last.op = "stopGeneration" /\ last.arg # "pending" -> last.arg
    [] last.op = "interruptResolved" -> "true"
    [] last.op = "interruptRejected" /\ resetOwner.kind # "stop" -> "true"
    [] last.op = "resetDone" /\ last.pre.owner = "stop" -> "true"
    [] OTHER -> "none"

\* queryInstance.interrupt() resolves: stopGeneration returns true.
interruptResolves(i) ==
  /\ i \in DOMAIN stops
  /\ Commit([Cur EXCEPT !.stops = RemoveAt(@, i)], "interruptResolved", stops[i])

\* queryInstance.interrupt() rejects: the catch block of stopGeneration.
interruptRejects(i) ==
  /\ i \in DOMAIN stops
  /\ hist.faults < MaxFaults
  /\ LET s1 == [Count(Cur, "faults") EXCEPT !.stops = RemoveAt(@, i)]
         s2 == markProcessingComplete(s1)
     IN Commit(IF resetSkipped(s2)
                 THEN s2
                 ELSE resetBegin(s2, [kind |-> "stop", content |-> 0]),
               "interruptRejected", stops[i])

\* The second attempt of ManagedSession.sendMessage after the reset.
sendRetry(s, content, throws, F) ==
  IF throws
    THEN broadcastError(s, "Failed to send message", F)
    ELSE startListening(AgentSession_sendMessage(s, s.agentSession, content))

\* ManagedSession.sendMessage when AgentSession.sendMessage raises: the catch
\* block up to the delay of resetAgentSession.
sendMessageThrows(throws, F) ==
  /\ hist.sends < MaxSends
  /\ hist.faults < MaxFaults
  /\ ~isProcessing
  /\ ~engines[agentSession].closed
  /\ LET s == Count(Count(Cur, "sends"), "faults")
         content == s.hist.sends
         s1 == sendMessagePrefix(s, content, F)
     IN Commit(IF resetSkipped(s1)
                 THEN sendRetry(s1, content, throws, F)
                 ELSE resetBegin(s1, [kind |-> "send", content |-> content]),
               "sendMessageThrew", content)

\* The timer of a reset started by sendMessage fires; sendMessage retries.
sendMessageRetry(throws, F) ==
  /\ resetOwner.kind = "send"
  /\ LET s1 == resetEnd(Cur)
     IN Commit(sendRetry(s1, resetOwner.content, throws, F),
               IF throws THEN "sendRetryThrew" ELSE "sendRetried",
               resetOwner.content)

\* ------------------------------------------------------------ sessionRepo
\* String.prototype.toLowerCase on one character.
Lower(c) == CASE c = "A" -> "a" [] c = "B" -> "b" [] OTHER -> c

Spaces == {" "}                        \* \s
WordChars == {"a", "b", "A", "B", "_"}   \* \w
Seps == Spaces \cup {"_", "-"}           \* [\s_-]
Dashes == {"-"}
IsKept(c) == c \in WordChars \cup Spaces \cup Dashes

\* t without its leading characters of S.
RECURSIVE dropWhile(_, _)
dropWhile(S, t) ==
  IF t # <<>> /\ Head(t) \in S THEN dropWhile(S, Tail(t)) ELSE t

\* t without its trailing characters of S.
RECURSIVE dropEndWhile(_, _)
dropEndWhile(S, t) ==
  IF t # <<>> /\ t[Len(t)] \in S
    THEN dropEndWhile(S, SubSeq(t, 1, Len(t) - 1))
    ELSE t

\* replace(/[\s_-]+/g, "-")
RECURSIVE collapse(_)
collapse(t) ==
  IF t = <<>> THEN <<>>
  ELSE IF Head(t) \in Seps THEN <<"-">> \o collapse(dropWhile(Seps, Tail(t)))
  ELSE <<Head(t)>> \o collapse(Tail(t))

\* slugify
slugify(text) ==
  LET lower == [i \in DOMAIN text |-> Lower(text[i])]
      trimmed == dropEndWhile(Spaces, dropWhile(Spaces, lower))
      stripped == SelectSeq(trimmed, IsKept)
      dashed == collapse(stripped)
  IN dropEndWhile(Dashes, dropWhile(Dashes, dashed))

\* The sessions table: a sequence of rows; a DELETE marks its row deleted
\* and leaves it in place, so that ids (uuidv4) are never handed out twice.
\* sessionRepo.getByName: SELECT * FROM sessions WHERE name = ?
HasRow(db, name) == \E i \in DOMAIN db : ~db[i].deleted /\ db[i].name = name
sessionRepo_getByName(db, name) ==
  db[CHOOSE i \in DOMAIN db : ~db[i].deleted /\ db[i].name = name]

\* The name sessionRepo.create stores: input.name ? slugify(input.name)
\* : generateSessionName(), gen being what generateSessionName draws.
createdName(name, gen) == IF name # <<>> THEN slugify(name) ELSE gen

\* The INSERT of sessionRepo.create fails on the UNIQUE constraint of name.
sessionRepo_createThrows(db, name, gen) == HasRow(db, createdName(name, gen))

\* sessionRepo.create: a fresh id, the slug of the name.
sessionRepo_create(db, name, gen) ==
  Append(db, [id |-> Len(db) + 1, name |-> createdName(name, gen), title |-> Null,
              archived |-> FALSE, pinned |-> FALSE, sdk_session_id |-> Null,
              deleted |-> FALSE])

\* sessionRepo.getOrCreateByName
sessionRepo_getOrCreateByName(db, name, gen) ==
  IF HasRow(db, name) THEN db ELSE sessionRepo_create(db, name, gen)

\* UPDATE sessions SET archived = 1, pinned = 0 WHERE name = ?
sessionRepo_archiveByName(db, name) ==
  [i \in DOMAIN db |-> IF ~db[i].deleted /\ db[i].name = name
                         THEN [db[i] EXCEPT !.archived = TRUE, !.pinned = FALSE]
                         ELSE db[i]]

\* UPDATE sessions SET archived = 0 WHERE name = ?
sessionRepo_unarchiveByName(db, name) ==
  [i \in DOMAIN db |-> IF ~db[i].deleted /\ db[i].name = name
                         THEN [db[i] EXCEPT !.archived = FALSE] ELSE db[i]]

\* UPDATE sessions SET pinned = 1 WHERE name = ?
sessionRepo_pinByName(db, name) ==
  [i \in DOMAIN db |-> IF ~db[i].deleted /\ db[i].name = name
                         THEN [db[i] EXCEPT !.pinned = TRUE] ELSE db[i]]

\* UPDATE sessions SET pinned = 0 WHERE name = ?
sessionRepo_unpinByName(db, name) ==
  [i \in DOMAIN db |-> IF ~db[i].deleted /\ db[i].name = name
                         THEN [db[i] EXCEPT !.pinned = FALSE] ELSE db[i]]

\* UPDATE sessions SET title = ?, updated_at = ? WHERE id = ?
sessionRepo_updateTitle(db, id, title) ==
  [i \in DOMAIN db |-> IF ~db[i].deleted /\ db[i].id = id
                         THEN [db[i] EXCEPT !.title = title] ELSE db[i]]

\* DELETE FROM sessions WHERE name = ?
sessionRepo_deleteByName(db, name) ==
  [i \in DOMAIN db |-> IF ~db[i].deleted /\ db[i].name = name
                         THEN [db[i] EXCEPT !.deleted = TRUE] ELSE db[i]]

\* UPDATE sessions SET sdk_session_id = ?, updated_at = ? WHERE id = ?
sessionRepo_updateSdkSessionId(db, id, token) ==
  [i \in DOMAIN db |-> IF ~db[i].deleted /\ db[i].id = id
                         THEN [db[i] EXCEPT !.sdk_session_id = token]
                         ELSE db[i]]

\* --------------------------------------------------------- SessionManager
\* The registry state the calls below transform, with what one call draws
\* (gen), raises (threw, error), returns (ret, session) and emits.
RegCur == [sessions |-> sessions, clientSessions |-> clientSessions,
           dbSessions |-> dbSessions, threw |-> FALSE, ret |-> "none", emitted |-> 0,
           client |-> Null, gen |-> <<>>, error |-> "none", session |-> 0,
           messageSessions |-> messageSessions, telegram |-> telegram,
           deletedNames |-> deletedNames]

\* SessionManager.broadcastSessionsUpdate: this.emit("sessions_changed")
broadcastSessionsUpdate(r) == [r EXCEPT !.emitted = @ + 1]

\* The identity of a new object: a number no registered state carries.
newObject(r) ==
  CHOOSE k \in 1..(MaxSessions + 1) :
    /\ \A n \in DOMAIN r.sessions : r.sessions[n].obj # k
    /\ \A j \in 1..(k - 1) : \E n \in DOMAIN r.sessions : r.sessions[n].obj = j

\* new ManagedSession(dbSession.id, dbSession.name, this, dbSession.sdk_session_id);
\* inbox is what its sendMessage has been called with.
ManagedSession_new(row, obj) ==
  [sessionId |-> row.id, sessionName |-> row.name, subscribers |-> {},
   sdkSessionId |-> row.sdk_session_id, obj |-> obj, inbox |-> <<>>]

\* SessionManager.getOrCreateSession
getOrCreateSession(r, name) ==
  IF name \in DOMAIN r.sessions THEN [r EXCEPT !.session = r.sessions[name].obj]
  ELSE IF ~HasRow(r.dbSessions, name) /\ sessionRepo_createThrows(r.dbSessions, name, r.gen)
    THEN [r EXCEPT !.threw = TRUE, !.error = "UNIQUE constraint failed"]
  ELSE LET db == sessionRepo_getOrCreateByName(r.dbSessions, name, r.gen)
           dbSession == IF HasRow(r.dbSessions, name)
                          THEN sessionRepo_getByName(db, name)
                          ELSE db[Len(db)]
           session == ManagedSession_new(dbSession, newObject(r))
       IN broadcastSessionsUpdate(
            [r EXCEPT !.dbSessions = db,
                      !.sessions = (name :> session) @@ @,
                      !.session = session.obj])

\* SessionManager.unsubscribeClient: an empty name is falsy, a client bound
\* to it is left as it is.
unsubscribeClient(r, c) ==
  IF c \in DOMAIN r.clientSessions /\ r.clientSessions[c] # <<>>
    THEN LET cur == r.clientSessions[c]
             ss == IF cur \in DOMAIN r.sessions
                     THEN [r.sessions EXCEPT ![cur].subscribers = @ \ {c}]
                     ELSE r.sessions
         IN [r EXCEPT !.sessions = ss,
                      !.clientSessions = [d \in DOMAIN @ \ {c} |-> @[d]]]
    ELSE r

\* SessionManager.subscribeClient
subscribeClient(r, c, name) ==
  LET r1 == getOrCreateSession(unsubscribeClient(r, c), name)
  IN IF r1.threw THEN r1
     ELSE [r1 EXCEPT !.sessions[name].subscribers = @ \cup {c},
                     !.clientSessions = (c :> name) @@ @]

\* SessionManager.sendMessage: session.sendMessage(content, source) is
\* called and not awaited.
SessionManager_sendMessage(r, c, content, source) ==
  IF c \notin DOMAIN r.clientSessions \/ r.clientSessions[c] = <<>>
    THEN [r EXCEPT !.threw = TRUE, !.error = "is not subscribed to any session"]
  ELSE IF r.clientSessions[c] \notin DOMAIN r.sessions
    THEN [r EXCEPT !.threw = TRUE, !.error = "not found"]
  ELSE [r EXCEPT !.sessions[r.clientSessions[c]].inbox =
                    Append(@, [content |-> content, source |-> source])]

\* session.close(); this.sessions.delete(name), if the state is in memory
evict(r, name) ==
  [r EXCEPT !.sessions = [k \in DOMAIN @ \ {name} |-> @[k]]]

\* What a lifecycle call returns and emits for the result of its statement.
resultOf(r, result) ==
  IF result THEN broadcastSessionsUpdate([r EXCEPT !.ret = "true"])
            ELSE [r EXCEPT !.ret = "false"]

\* SessionManager.archiveSession
archiveSession(r, name) ==
  LET r1 == evict(r, name)
  IN resultOf([r1 EXCEPT !.dbSessions = sessionRepo_archiveByName(@, name)],
              HasRow(r.dbSessions, name))

\* SessionManager.unarchiveSession
unarchiveSession(r, name) ==
  resultOf([r EXCEPT !.dbSessions = sessionRepo_unarchiveByName(@, name)],
           HasRow(r.dbSessions, name))

\* SessionManager.pinSession
pinSession(r, name) ==
  resultOf([r EXCEPT !.dbSessions = sessionRepo_pinByName(@, name)],
           HasRow(r.dbSessions, name))

\* SessionManager.unpinSession
unpinSession(r, name) ==
  resultOf([r EXCEPT !.dbSessions = sessionRepo_unpinByName(@, name)],
           HasRow(r.dbSessions, name))

\* SessionManager.renameSession
renameSession(r, name, newTitle) ==
  IF ~HasRow(r.dbSessions, name) THEN [r EXCEPT !.ret = "false"]
  ELSE LET dbSession == sessionRepo_getByName(r.dbSessions, name)
       IN broadcastSessionsUpdate(
            [r EXCEPT !.dbSessions = sessionRepo_updateTitle(@, dbSession.id, newTitle),
                      !.ret = "true"])

\* MessageSessionTracker.clearSessionMappings:
\* DELETE FROM telegram_message_sessions WHERE session_name = ?
clearSessionMappings(rows, name) == {m \in rows : m.session_name # name}

\* MessageSessionTracker.trackMessage: INSERT OR REPLACE on the key
\* (chat_id, message_id)
trackMessage(rows, chatId, messageId, name) ==
  {m \in rows : ~(m.chat_id = chatId /\ m.message_id = messageId)}
    \cup {[chat_id |-> chatId, message_id |-> messageId, session_name |-> name]}

\* SessionManager.deleteSession
deleteSession(r, name) ==
  LET r1 == evict(r, name)
  IN resultOf([r1 EXCEPT !.messageSessions = clearSessionMappings(@, name),
                         !.dbSessions = sessionRepo_deleteByName(@, name)],
              HasRow(r.dbSessions, name))

\* SessionManager.cleanup
cleanup(r) ==
  [r EXCEPT !.sessions =
     [k \in {n \in DOMAIN @ : @[n].subscribers # {}} |-> @[k]]]

RegSet(r, op, name) ==
  /\ sessions' = r.sessions
  /\ clientSessions' = r.clientSessions
  /\ dbSessions' = r.dbSessions
  /\ regLast' = [op |-> op, name |-> name, threw |-> r.threw, ret |-> r.ret,
                 emitted |-> r.emitted, client |-> r.client,
                 error |-> r.error, session |-> r.session,
                 pre |-> [sessions |-> sessions, clientSessions |-> clientSessions,
                          dbSessions |-> dbSessions]]
  /\ messageSessions' = r.messageSessions
  /\ telegram' = r.telegram
  /\ deletedNames' = r.deletedNames

RegCommit(r, op, name) == RegSet(r, op, name) /\ UNCHANGED <<convVars, fbVars, auxVars>>

\* What keeps the registry and the table within MaxSessions and MaxRows.
RegWithin(r) ==
  /\ Cardinality(DOMAIN r.sessions) <= MaxSessions
  /\ Len(r.dbSessions) <= MaxRows

callGetOrCreateSession(name) ==
  \E g \in GeneratedNames :
    LET r == getOrCreateSession([RegCur EXCEPT !.gen = g], name)
    IN RegWithin(r) /\ ~r.threw /\ RegCommit(r, "getOrCreateSession", name)

callGetOrCreateSessionThrows(name) ==
  \E g \in GeneratedNames :
    LET r == getOrCreateSession([RegCur EXCEPT !.gen = g], name)
    IN r.threw /\ RegCommit(r, "getOrCreateSession", name)

callSubscribeClient(c, name) ==
  \E g \in GeneratedNames :
    LET r == subscribeClient([RegCur EXCEPT !.gen = g], c, name)
    IN RegWithin(r) /\ RegCommit([r EXCEPT !.client = c], "subscribeClient", name)

callUnsubscribeClient(c) ==
  /\ c \in DOMAIN clientSessions
  /\ RegCommit([unsubscribeClient(RegCur, c) EXCEPT !.client = c],
               "unsubscribeClient", clientSessions[c])

callCleanup ==
  /\ \E n \in DOMAIN sessions : sessions[n].subscribers = {}
  /\ RegCommit(cleanup(RegCur), "cleanup", <<>>)

\* SessionManager.sendMessage, called for client c with one content while
\* no state in memory holds MaxInbox contents.
callSendMessage(c) ==
  LET r == SessionManager_sendMessage(RegCur, c, "hi", "web")
  IN /\ \A n \in DOMAIN r.sessions : Len(r.sessions[n].inbox) <= MaxInbox
     /\ RegCommit([r EXCEPT !.client = c], "sendMessage", <<>>)

callArchiveSession(name) ==
  LET r == archiveSession(RegCur, name)
  IN /\ RegWithin(r)
     /\ RegCommit(r, "archiveSession", name)

callUnarchiveSession(name) ==
  LET r == unarchiveSession(RegCur, name)
  IN /\ RegWithin(r)
     /\ RegCommit(r, "unarchiveSession", name)

callPinSession(name) ==
  LET r == pinSession(RegCur, name)
  IN /\ RegWithin(r)
     /\ RegCommit(r, "pinSession", name)

callUnpinSession(name) ==
  LET r == unpinSession(RegCur, name)
  IN /\ RegWithin(r)
     /\ RegCommit(r, "unpinSession", name)

callRenameSession(name) ==
  LET r == renameSession(RegCur, name, "title")
  IN /\ RegWithin(r)
     /\ RegCommit(r, "renameSession", name)

callDeleteSession(name) ==
  LET r == deleteSession(RegCur, name)
  IN /\ RegWithin(r)
     /\ RegCommit([r EXCEPT !.deletedNames = @ \cup {name}], "deleteSession", name)

\* ManagedSession.broadcast of the state under key k in which the callback of
\* subscriber c throws: the catch deletes c from the subscribers of that state.
callbackThrows(k, c) ==
  /\ k \in DOMAIN sessions
  /\ c \in sessions[k].subscribers
  /\ RegCommit([RegCur EXCEPT !.sessions[k].subscribers = @ \ {c}, !.client = c],
               "broadcast", k)

\* The clientId TelegramSubscriptionManager subscribes a chat with.
telegramClient(chatId) == IF chatId = 1 THEN "telegram-persistent-1"
                                       ELSE "telegram-persistent-2"

\* TelegramSubscriptionManager.unsubscribe
telegramUnsubscribe(r, chatId) ==
  IF chatId \notin DOMAIN r.telegram.subscriptions THEN r
  ELSE [unsubscribeClient(r, telegramClient(chatId)) EXCEPT
          !.telegram.subscriptions = [d \in DOMAIN @ \ {chatId} |-> @[d]]]

\* TelegramSubscriptionManager.subscribe
telegramSubscribe(r, chatId, name) ==
  LET existing == chatId \in DOMAIN r.telegram.subscriptions
      r1 == IF existing /\ r.telegram.subscriptions[chatId] # name
              THEN telegramUnsubscribe(r, chatId) ELSE r
  IN IF existing /\ r.telegram.subscriptions[chatId] = name THEN r
     ELSE LET r2 == subscribeClient(r1, telegramClient(chatId), name)
          IN IF r2.threw THEN r2
             ELSE [r2 EXCEPT !.telegram.subscriptions = (chatId :> name) @@ @]

callTelegramSubscribe(chatId, name) ==
  \E g \in GeneratedNames :
    LET r == telegramSubscribe([RegCur EXCEPT !.gen = g], chatId, name)
    IN /\ RegWithin(r)
       /\ RegCommit([r EXCEPT !.client = telegramClient(chatId)], "subscribe", name)

\* sendNewMessage up to its await: the conversation the chat is subscribed
\* to has broadcast to the chat's callback; one chunk goes to
\* bot.api.sendMessage with the subscription read before the call.
sendNewMessageStarts(chatId) ==
  /\ telegram.started < MaxTelegramSends
  /\ chatId \in DOMAIN telegram.subscriptions
  /\ \E k \in DOMAIN sessions : telegramClient(chatId) \in sessions[k].subscribers
  /\ telegram' = [telegram EXCEPT
                    !.started = @ + 1,
                    !.sending = @ \cup {[chatId |-> chatId, call |-> telegram.started + 1,
                                         sessionName |-> telegram.subscriptions[chatId]]}]
  /\ regLast' = [regLast EXCEPT !.op = "sendNewMessage", !.name = <<>>]
  /\ UNCHANGED <<sessions, clientSessions, dbSessions, messageSessions, deletedNames>>
  /\ UNCHANGED <<convVars, fbVars, auxVars>>

\* bot.api.sendMessage resolves with a new message_id: trackMessage
sendNewMessageSent(call) ==
  /\ call \in telegram.sending
  /\ telegram' = [telegram EXCEPT !.sending = @ \ {call}]
  /\ messageSessions' = trackMessage(messageSessions, call.chatId, call.call,
                                     call.sessionName)
  /\ regLast' = [regLast EXCEPT !.op = "trackMessage", !.name = call.sessionName]
  /\ UNCHANGED <<sessions, clientSessions, dbSessions, deletedNames>>
  /\ UNCHANGED <<convVars, fbVars, auxVars>>

\* bot.api.sendMessage rejects: the error is logged, nothing is tracked
sendNewMessageFails(call) ==
  /\ call \in telegram.sending
  /\ telegram' = [telegram EXCEPT !.sending = @ \ {call}]
  /\ regLast' = [regLast EXCEPT !.op = "sendFailed", !.name = call.sessionName]
  /\ UNCHANGED <<sessions, clientSessions, dbSessions, messageSessions, deletedNames>>
  /\ UNCHANGED <<convVars, fbVars, auxVars>>

\* handleSDKMessage of the state under key k takes a new session id from an
\* init message: the field and, by id, the row.
initCaptured(k, tok) ==
  /\ k \in DOMAIN sessions
  /\ sessions[k].sdkSessionId # tok
  /\ RegCommit([RegCur EXCEPT
                  !.sessions[k].sdkSessionId = tok,
                  !.dbSessions = sessionRepo_updateSdkSessionId(@, sessions[k].sessionId, tok)],
               "init", k)

\* SessionManager.stopGeneration: false for a name with no state in memory,
\* else what the ManagedSession answers.
callStopGeneration(name) ==
  IF name \in DOMAIN sessions
    THEN stopGeneration
    ELSE RegCommit([RegCur EXCEPT !.ret = "false"], "stopGeneration", name)

\* --------------------------------------------------------- FragmentBuffer
\* A text is a sequence of pieces, each a run of len characters; joining
\* texts concatenates their pieces and text.length adds the lengths up.
fragmentThreshold == 4000
flushDelay == 500
Tick == 250
Piece(tag, len) == [tag |-> tag, len |-> len]
Texts == { <<>>, <<Piece("a", 3999)>>, <<Piece("b", 4000)>>, <<Piece("c", 4096)>> }
FbChats == {1, 2}

RECURSIVE length(_)
length(text) == IF text = <<>> THEN 0 ELSE Head(text).len + length(Tail(text))

\* join with the fragments taken last to first
RECURSIVE join_reversed(_)
join_reversed(fragments) ==
  IF fragments = <<>> THEN <<>> ELSE join_reversed(Tail(fragments)) \o Head(fragments)

\* fragments.join("")
RECURSIVE join(_)
join(fragments) ==
  IF fragments = <<>> THEN <<>> ELSE Head(fragments) \o join(Tail(fragments))

\* The FragmentBuffer, the timeouts and the callbacks a call transforms.
FbCur == [buffers |-> buffers, timers |-> timers, flushed |-> fbHist.flushed,
          ret |-> "none"]

\* setTimeout(() => this.flush(chatId), this.flushDelay); the timeout is
\* known by the message id of the add that set it.
setTimeout(f, id, chatId) ==
  [f EXCEPT !.timers = @ \cup {[id |-> id, chatId |-> chatId, due |-> clock + flushDelay]}]

clearTimeout(f, id) == [f EXCEPT !.timers = {t \in @ : t.id # id}]

\* pushFragment without clearTimeout
pushFragment_noClear(f, chatId, messageId, text) ==
  LET existing == f.buffers[chatId]
      f2 == [f EXCEPT !.buffers[chatId] =
               [existing EXCEPT !.fragments = Append(@, text), !.lastUpdate = clock,
                                !.timeout = messageId]]
  IN setTimeout(f2, messageId, chatId)

\* What add does to a pending buffer: push, restart the timeout.
pushFragment(f, chatId, messageId, text) ==
  LET existing == f.buffers[chatId]
      f1 == clearTimeout(f, existing.timeout)
      f2 == [f1 EXCEPT !.buffers[chatId] =
               [existing EXCEPT !.fragments = Append(@, text), !.lastUpdate = clock,
                                !.timeout = messageId]]
  IN setTimeout(f2, messageId, chatId)

\* add that looks at the length before it looks for a pending buffer
FragmentBuffer_add_lengthFirst(f, chatId, messageId, text) ==
  IF length(text) < fragmentThreshold THEN [f EXCEPT !.ret = "false"]
  ELSE IF chatId \in DOMAIN f.buffers
    THEN [pushFragment(f, chatId, messageId, text) EXCEPT !.ret = "true"]
  ELSE LET f1 == setTimeout(f, messageId, chatId)
       IN [f1 EXCEPT !.buffers = (chatId :> [chatId |-> chatId, fragments |-> <<text>>,
                                             firstMessageId |-> messageId,
                                             lastUpdate |-> clock,
                                             timeout |-> messageId]) @@ @,
                     !.ret = "true"]

\* FragmentBuffer.add
FragmentBuffer_add(f, chatId, messageId, text) ==
  LET isLikelyFragment == length(text) >= fragmentThreshold
  IN IF chatId \in DOMAIN f.buffers
       THEN [pushFragment(f, chatId, messageId, text) EXCEPT !.ret = "true"]
     ELSE IF isLikelyFragment
       THEN LET f1 == setTimeout(f, messageId, chatId)
            IN [f1 EXCEPT !.buffers = (chatId :> [chatId |-> chatId, fragments |-> <<text>>,
                                                  firstMessageId |-> messageId,
                                                  lastUpdate |-> clock,
                                                  timeout |-> messageId]) @@ @,
                          !.ret = "true"]
     ELSE [f EXCEPT !.ret = "false"]

\* FragmentBuffer.flush: the callback is called before the first await.
FragmentBuffer_flush(f, chatId) ==
  IF chatId \notin DOMAIN f.buffers THEN f
  ELSE LET buffer == f.buffers[chatId]
           combined == join(buffer.fragments)
       IN [f EXCEPT !.buffers = [c \in DOMAIN @ \ {chatId} |-> @[c]],
                    !.flushed = Append(@, [chatId |-> chatId, combinedText |-> combined,
                                           firstMessageId |-> buffer.firstMessageId])]

\* clear that hands the buffer to flush
FragmentBuffer_clear_flushes(f, chatId) ==
  IF chatId \in DOMAIN f.buffers
    THEN FragmentBuffer_flush(clearTimeout(f, f.buffers[chatId].timeout), chatId)
    ELSE f

\* FragmentBuffer.clear
FragmentBuffer_clear(f, chatId) ==
  IF chatId \in DOMAIN f.buffers
    THEN [clearTimeout(f, f.buffers[chatId].timeout) EXCEPT
            !.buffers = [c \in DOMAIN @ \ {chatId} |-> @[c]]]
    ELSE f

FbSet(f, op, chatId, text, arrived, adds) ==
  /\ buffers' = f.buffers
  /\ timers' = f.timers
  /\ fbHist' = [fbHist EXCEPT
                  !.adds = adds,
                  !.flushed = f.flushed,
                  !.arrived = arrived,
                  !.discarded = IF op = "clear"
                                  THEN @ \cup {[chatId |-> chatId,
                                                  messageId |-> fbHist.arrived[chatId][i].messageId] :
                                                 i \in DOMAIN fbHist.arrived[chatId]}
                                  ELSE @,
                  !.last = [op |-> op, chatId |-> chatId, text |-> text, ret |-> f.ret,
                            at |-> clock,
                            pre |-> [buffers |-> buffers, timers |-> timers,
                                     arrived |-> fbHist.arrived,
                                     flushed |-> fbHist.flushed]]]
  /\ clock' = clock

FbCommit(f, op, chatId, text, arrived, adds) ==
  /\ FbSet(f, op, chatId, text, arrived, adds)
  /\ UNCHANGED <<handler, convVars, regVars, auxVars>>

\* Telegram delivers a message of chat chatId: message ids count up.
callAdd(chatId, text) ==
  /\ fbHist.adds < MaxAdds
  /\ LET messageId == fbHist.adds + 1
         f == FragmentBuffer_add(FbCur, chatId, messageId, text)
         arrived == IF f.ret = "true"
                      THEN [fbHist.arrived EXCEPT ![chatId] =
                              Append(@, [messageId |-> messageId, text |-> text])]
                      ELSE fbHist.arrived
     IN FbCommit(f, "add", chatId, text, arrived, messageId)

\* The timeout known by id runs its callback, at its due time or later.
timerFires(id) ==
  \E t \in timers :
    /\ t.id = id
    /\ t.due <= clock
    /\ LET f == FragmentBuffer_flush([FbCur EXCEPT !.timers = @ \ {t}], t.chatId)
       IN FbCommit(f, "flush", t.chatId, <<>>, [fbHist.arrived EXCEPT ![t.chatId] = <<>>],
                   fbHist.adds)

callClear(chatId) ==
  /\ chatId \in FbChats
  /\ FbCommit(FragmentBuffer_clear(FbCur, chatId), "clear", chatId, <<>>,
              [fbHist.arrived EXCEPT ![chatId] = <<>>], fbHist.adds)

\* Time passes.
tick ==
  /\ clock + Tick <= MaxTime
  /\ clock' = clock + Tick
  /\ UNCHANGED <<buffers, timers, fbHist, handler, convVars, regVars, auxVars>>

\* ------------------------------------------------------- message-handler
\* ctx.session.currentSessionName of the chats
currentSessionName == <<"a", "b">>

\* handleMessage of message-handler.ts for a text message of chatId: the
\* chat is subscribed, the text is buffered and its context stored, or
\* processMessage is called and suspends in its first await.
handleMessage(chatId, text) ==
  /\ fbHist.adds < MaxAdds
  /\ LET messageId == fbHist.adds + 1
         r == IF chatId \notin DOMAIN telegram.subscriptions
                   \/ telegram.subscriptions[chatId] # currentSessionName
                THEN telegramSubscribe(RegCur, chatId, currentSessionName)
                ELSE RegCur
         f == FragmentBuffer_add(FbCur, chatId, messageId, text)
         arrived == IF f.ret = "true"
                      THEN [fbHist.arrived EXCEPT ![chatId] =
                              Append(@, [messageId |-> messageId, text |-> text])]
                      ELSE fbHist.arrived
     IN IF text = <<>>
          THEN /\ FbSet(FbCur, "ignored", chatId, text, fbHist.arrived, messageId)
               /\ UNCHANGED <<handler, regVars>>
          ELSE /\ RegWithin(r)
               /\ RegSet(r, "subscribe", currentSessionName)
               /\ FbSet(f, "add", chatId, text, arrived, messageId)
               /\ handler' =
                    IF f.ret = "true"
                      THEN [handler EXCEPT
                              !.bufferedContexts = (chatId :> currentSessionName) @@ @]
                      ELSE [handler EXCEPT
                              !.processing = @ \cup
                                {[chatId |-> chatId, text |-> text,
                                  originalMessageId |-> messageId,
                                  sessionName |-> currentSessionName,
                                  buffered |-> FALSE]}]
  /\ UNCHANGED <<convVars, auxVars>>

\* A timeout of the fragment buffer runs: flush, and the flush callback up
\* to the first await of processMessage, or its return when no context is
\* stored for the chat.
flushFires(id) ==
  \E t \in timers :
    /\ t.id = id
    /\ t.due <= clock
    /\ LET f == FragmentBuffer_flush([FbCur EXCEPT !.timers = @ \ {t}], t.chatId)
           called == Len(f.flushed) > Len(fbHist.flushed)
           args == f.flushed[Len(f.flushed)]
       IN /\ FbSet(f, "flush", t.chatId, <<>>, [fbHist.arrived EXCEPT ![t.chatId] = <<>>],
                   fbHist.adds)
          /\ handler' =
               IF called /\ t.chatId \in DOMAIN handler.bufferedContexts
                 THEN [handler EXCEPT
                         !.processing = @ \cup
                           {[chatId |-> args.chatId, text |-> args.combinedText,
                             originalMessageId |-> args.firstMessageId,
                             sessionName |-> handler.bufferedContexts[t.chatId],
                             buffered |-> TRUE]}]
                 ELSE handler
    /\ UNCHANGED <<convVars, regVars, auxVars>>

\* processMessage runs from its last await to its end: the text goes to
\* session.sendMessage; the flush callback that awaited it then deletes the
\* chat's stored context.
processMessageEnds(originalMessageId) ==
  \E call \in handler.processing :
    /\ call.originalMessageId = originalMessageId
    /\ handler' = [handler EXCEPT
                     !.processing = @ \ {call},
                     !.forwarded = Append(@, [chatId |-> call.chatId, text |-> call.text,
                                              originalMessageId |-> call.originalMessageId,
                                              sessionName |-> call.sessionName]),
                     !.bufferedContexts =
                        IF call.buffered THEN [c \in DOMAIN @ \ {call.chatId} |-> @[c]]
                                         ELSE @]
    /\ UNCHANGED <<buffers, timers, clock, fbHist, convVars, regVars, auxVars>>

FbIdle ==
  /\ handler = [bufferedContexts |-> <<>>, processing |-> {}, forwarded |-> <<>>]
  /\ buffers = <<>>
  /\ timers = {}
  /\ clock = 0
  /\ fbHist = [adds |-> 0, flushed |-> <<>>, arrived |-> [c \in FbChats |-> <<>>],
               discarded |-> {},
               last |-> [op |-> "new", chatId |-> 0, text |-> <<>>, ret |-> "none",
                         at |-> 0,
                         pre |-> [buffers |-> <<>>, timers |-> {},
                                  arrived |-> [c \in FbChats |-> <<>>],
                                  flushed |-> <<>>]]]

\* ------------------------------------------------------- MediaGroupBuffer
\* new MediaGroupBuffer(1000, flushCallback)
mediaFlushDelay == 1000
undefined == "undefined"
MediaGroupIds == {"group-1", "group-2"}
MediaChats == {1, 2}

\* add that leaves the running timeout of a pending group in place
MediaGroupBuffer_add_noRestart(g, chatId, mediaGroupId, messageId, type, fileId) ==
  IF mediaGroupId = undefined \/ mediaGroupId \in DOMAIN g.groups
    THEN IF mediaGroupId = undefined THEN [g EXCEPT !.ret = "false"]
         ELSE [g EXCEPT !.groups[mediaGroupId].items =
                          Append(@, [type |-> type, fileId |-> fileId,
                                     messageId |-> messageId]),
                        !.ret = "true"]
    ELSE [g EXCEPT
            !.timers = @ \cup {[id |-> messageId, mediaGroupId |-> mediaGroupId,
                                due |-> clock + mediaFlushDelay]},
            !.groups = (mediaGroupId :>
                          [chatId |-> chatId, mediaGroupId |-> mediaGroupId,
                           items |-> <<[type |-> type, fileId |-> fileId,
                                        messageId |-> messageId]>>,
                           firstMessageId |-> messageId, timeout |-> messageId]) @@ @,
            !.ret = "true"]

\* MediaGroupBuffer.add; a timeout is known by the message id of the add
\* that set it.
MediaGroupBuffer_add(g, chatId, mediaGroupId, messageId, type, fileId) ==
  LET item == [type |-> type, fileId |-> fileId, messageId |-> messageId]
      timeout == [id |-> messageId, mediaGroupId |-> mediaGroupId,
                  due |-> clock + mediaFlushDelay]
  IN IF mediaGroupId = undefined THEN [g EXCEPT !.ret = "false"]
     ELSE IF mediaGroupId \in DOMAIN g.groups
       THEN LET existing == g.groups[mediaGroupId]
            IN [g EXCEPT
                  !.timers = {t \in @ : t.id # existing.timeout} \cup {timeout},
                  !.groups[mediaGroupId] =
                     [existing EXCEPT !.items = Append(@, item), !.timeout = messageId],
                  !.ret = "true"]
     ELSE [g EXCEPT
             !.timers = @ \cup {timeout},
             !.groups = (mediaGroupId :>
                           [chatId |-> chatId, mediaGroupId |-> mediaGroupId,
                            items |-> <<item>>, firstMessageId |-> messageId,
                            timeout |-> messageId]) @@ @,
             !.ret = "true"]

\* MediaGroupBuffer.flush: onFlush(group) is called before the first await.
MediaGroupBuffer_flush(g, mediaGroupId) ==
  IF mediaGroupId \notin DOMAIN g.groups THEN g
  ELSE [g EXCEPT !.groups = [k \in DOMAIN @ \ {mediaGroupId} |-> @[k]],
                 !.flushed = Append(@, g.groups[mediaGroupId])]

\* MediaGroupBuffer.clear
MediaGroupBuffer_clear(g, mediaGroupId) ==
  IF mediaGroupId \in DOMAIN g.groups
    THEN [g EXCEPT !.timers = {t \in @ : t.id # g.groups[mediaGroupId].timeout},
                   !.groups = [k \in DOMAIN @ \ {mediaGroupId} |-> @[k]]]
    ELSE g

MgCur == [groups |-> mediaGroups.groups, timers |-> mediaGroups.timers,
          flushed |-> mediaGroups.flushed, ret |-> "none"]

\* What the media actions leave alone.
notMedia == <<convVars, regVars, fbVars, updateTracker, replyMode, responses, outbox>>

MgCommit(g, op, mediaGroupId, arrived, adds) ==
  /\ mediaGroups' =
       [groups |-> g.groups, timers |-> g.timers, flushed |-> g.flushed,
        arrived |-> arrived, adds |-> adds,
        last |-> [op |-> op, mediaGroupId |-> mediaGroupId, ret |-> g.ret, at |-> clock,
                  pre |-> [groups |-> mediaGroups.groups, timers |-> mediaGroups.timers,
                           flushed |-> mediaGroups.flushed,
                           arrived |-> mediaGroups.arrived]]]
  /\ UNCHANGED notMedia

\* Telegram delivers a media message: message ids count up, the file id is
\* that of the message.
mediaAdd(chatId, mediaGroupId) ==
  /\ mediaGroups.adds < MaxMediaAdds
  /\ LET messageId == mediaGroups.adds + 1
         g == MediaGroupBuffer_add(MgCur, chatId, mediaGroupId, messageId, "photo",
                                   messageId)
         arrived == IF mediaGroupId = undefined THEN mediaGroups.arrived
                    ELSE [mediaGroups.arrived EXCEPT ![mediaGroupId] =
                            Append(@, [chatId |-> chatId, messageId |-> messageId,
                                       at |-> clock])]
     IN MgCommit(g, "add", mediaGroupId, arrived, messageId)

\* The timeout known by id runs, at its due time or later.
mediaTimerFires(id) ==
  \E t \in mediaGroups.timers :
    /\ t.id = id
    /\ t.due <= clock
    /\ MgCommit(MediaGroupBuffer_flush([MgCur EXCEPT !.timers = @ \ {t}], t.mediaGroupId),
                "flush", t.mediaGroupId,
                [mediaGroups.arrived EXCEPT ![t.mediaGroupId] = <<>>], mediaGroups.adds)

mediaClear(mediaGroupId) ==
  /\ mediaGroupId \in MediaGroupIds
  /\ MgCommit(MediaGroupBuffer_clear(MgCur, mediaGroupId), "clear", mediaGroupId,
              [mediaGroups.arrived EXCEPT ![mediaGroupId] = <<>>], mediaGroups.adds)

MgIdle ==
  mediaGroups =
    [groups |-> <<>>, timers |-> {}, flushed |-> <<>>,
     arrived |-> [k \in MediaGroupIds |-> <<>>], adds |-> 0,
     last |-> [op |-> "new", mediaGroupId |-> undefined, ret |-> "none", at |-> 0,
               pre |-> [groups |-> <<>>, timers |-> {}, flushed |-> <<>>,
                        arrived |-> [k \in MediaGroupIds |-> <<>>]]]]

\* ---------------------------------------------------------- UpdateTracker
UpdateIds == 1..4

\* isDuplicate that moves an id found to the end of the eviction order
isDuplicate_touch(u, updateId) ==
  IF updateId \in u.processedIds
    THEN [u EXCEPT !.orderedIds = Append(SelectSeq(@, LAMBDA x : x # updateId), updateId),
                   !.ret = TRUE]
    ELSE LET pushed == Append(u.orderedIds, updateId)
         IN IF Len(pushed) > maxSize
              THEN [processedIds |-> (u.processedIds \cup {updateId}) \ {Head(pushed)},
                    orderedIds |-> Tail(pushed), ret |-> FALSE]
              ELSE [processedIds |-> u.processedIds \cup {updateId},
                    orderedIds |-> pushed, ret |-> FALSE]

\* isDuplicate that shifts the oldest id out of orderedIds and leaves it in
\* processedIds
isDuplicate_keepsEvicted(u, updateId) ==
  IF updateId \in u.processedIds THEN [u EXCEPT !.ret = TRUE]
  ELSE LET pushed == Append(u.orderedIds, updateId)
       IN [processedIds |-> u.processedIds \cup {updateId},
           orderedIds |-> IF Len(pushed) > maxSize THEN Tail(pushed) ELSE pushed,
           ret |-> FALSE]

\* isDuplicate that evicts the id it has just pushed
isDuplicate_pop(u, updateId) ==
  IF updateId \in u.processedIds THEN [u EXCEPT !.ret = TRUE]
  ELSE IF Len(u.orderedIds) + 1 > maxSize
    THEN [u EXCEPT !.ret = FALSE]
    ELSE [processedIds |-> u.processedIds \cup {updateId},
          orderedIds |-> Append(u.orderedIds, updateId), ret |-> FALSE]

\* UpdateTracker.isDuplicate
isDuplicate(u, updateId) ==
  IF updateId \in u.processedIds THEN [u EXCEPT !.ret = TRUE]
  ELSE LET added == u.processedIds \cup {updateId}
           pushed == Append(u.orderedIds, updateId)
       IN IF Len(pushed) > maxSize
            THEN LET oldest == Head(pushed)
                 IN [processedIds |-> added \ {oldest}, orderedIds |-> Tail(pushed),
                     ret |-> FALSE]
            ELSE [processedIds |-> added, orderedIds |-> pushed, ret |-> FALSE]

\* UpdateTracker.size
size(u) == Cardinality(u.processedIds)

UtCur == [processedIds |-> updateTracker.processedIds,
          orderedIds |-> updateTracker.orderedIds, ret |-> FALSE]

notTracker == <<convVars, regVars, fbVars, mediaGroups, replyMode, responses, outbox>>

\* The deduplication middleware of the bot presents an update id.
callIsDuplicate(updateId) ==
  /\ updateTracker.calls < MaxUpdates
  /\ LET u == isDuplicate(UtCur, updateId)
     IN updateTracker' =
          [processedIds |-> u.processedIds, orderedIds |-> u.orderedIds,
           inserted |-> IF u.ret THEN updateTracker.inserted
                        ELSE Append(updateTracker.inserted, updateId),
           hits |-> IF u.ret THEN updateTracker.hits \cup {updateId}
                    ELSE updateTracker.hits \ {updateId},
           presented |-> updateTracker.presented \cup {updateId},
           calls |-> updateTracker.calls + 1,
           last |-> [op |-> "isDuplicate", updateId |-> updateId, ret |-> u.ret,
                     pre |-> [processedIds |-> updateTracker.processedIds,
                              orderedIds |-> updateTracker.orderedIds,
                              presented |-> updateTracker.presented,
                              hits |-> updateTracker.hits]]]
  /\ UNCHANGED notTracker

\* UpdateTracker.clear
callClear_tracker ==
  /\ updateTracker.calls < MaxUpdates
  /\ updateTracker' =
       [processedIds |-> {}, orderedIds |-> <<>>, inserted |-> <<>>, hits |-> {},
        presented |-> {}, calls |-> updateTracker.calls + 1,
        last |-> [op |-> "clear", updateId |-> 0, ret |-> FALSE,
                  pre |-> [processedIds |-> updateTracker.processedIds,
                           orderedIds |-> updateTracker.orderedIds,
                           presented |-> updateTracker.presented,
                           hits |-> updateTracker.hits]]]
  /\ UNCHANGED notTracker

UtIdle ==
  updateTracker =
    [processedIds |-> {}, orderedIds |-> <<>>, inserted |-> <<>>, hits |-> {},
     presented |-> {}, calls |-> 0,
     last |-> [op |-> "new", updateId |-> 0, ret |-> FALSE,
               pre |-> [processedIds |-> {}, orderedIds |-> <<>>, presented |-> {},
                        hits |-> {}]]]

\* ------------------------------------------------------- ReplyModeManager
ReplyModes == {"off", "first", "all"}
ReplyChats == {1, 2}
\* firstMessageId = null, and the undefined that getReplyToId returns: message
\* ids are positive
null == -1
undefinedId == 0

\* recordUserMessage that stores every message id as the first
recordUserMessage_overwrites(m, chatId, messageId) ==
  [m EXCEPT !.contexts =
     (chatId :> [chatId |-> chatId, firstMessageId |-> messageId,
                 lastUserMessageId |-> messageId]) @@ @]

\* recordUserMessage, up to its return statement
recordUserMessage(m, chatId, messageId) ==
  IF chatId \notin DOMAIN m.contexts
    THEN [m EXCEPT !.contexts =
            (chatId :> [chatId |-> chatId, firstMessageId |-> messageId,
                        lastUserMessageId |-> messageId]) @@ @]
    ELSE [m EXCEPT !.contexts[chatId].lastUserMessageId = messageId]

\* getReplyToId
getReplyToId(m, chatId) ==
  IF chatId \notin DOMAIN m.contexts THEN undefinedId
  ELSE LET context == m.contexts[chatId]
       IN CASE m.mode = "off" -> undefinedId
            [] m.mode = "first" ->
                 IF context.firstMessageId = null THEN undefinedId
                 ELSE context.firstMessageId
            [] m.mode = "all" -> context.lastUserMessageId
            [] OTHER -> undefinedId

\* clearContext
clearContext(m, chatId) ==
  [m EXCEPT !.contexts = [c \in DOMAIN @ \ {chatId} |-> @[c]]]

\* resetFirst that forgets the chat
resetFirst_clears(m, chatId) == clearContext(m, chatId)

\* resetFirst
resetFirst(m, chatId) ==
  IF chatId \in DOMAIN m.contexts
    THEN [m EXCEPT !.contexts[chatId].firstMessageId = null]
    ELSE m

RmCur == [contexts |-> replyMode.contexts, mode |-> replyMode.mode]

notReply == <<convVars, regVars, fbVars, mediaGroups, updateTracker, responses, outbox>>

\* The manager after a call: first and latest are what was recorded for each
\* chat since its last resetFirst or clearContext, since is the call that
\* opened that period.
RmCommit(m, op, chatId, ret, first, latest, since, recorded) ==
  /\ replyMode.calls < MaxReplyCalls
  /\ replyMode' =
       [contexts |-> m.contexts, mode |-> m.mode, first |-> first, latest |-> latest,
        since |-> since, recorded |-> recorded, calls |-> replyMode.calls + 1,
        last |-> [op |-> op, chatId |-> chatId, ret |-> ret,
                  pre |-> [first |-> replyMode.first, mode |-> replyMode.mode,
                           replyTo |-> [c \in ReplyChats |-> getReplyToId(RmCur, c)]]]]
  /\ UNCHANGED notReply

callSetMode(mode) ==
  /\ mode # replyMode.mode
  /\ RmCommit([RmCur EXCEPT !.mode = mode], "setMode", 0, undefinedId,
              replyMode.first, replyMode.latest, replyMode.since, replyMode.recorded)

\* A handler records the user's message; message ids count up.
callRecordUserMessage(chatId) ==
  /\ chatId \in ReplyChats
  /\ LET messageId == replyMode.recorded + 1
         m == recordUserMessage(RmCur, chatId, messageId)
     IN RmCommit(m, "recordUserMessage", chatId, getReplyToId(m, chatId),
              IF replyMode.first[chatId] = undefinedId
                THEN [replyMode.first EXCEPT ![chatId] = messageId]
                ELSE replyMode.first,
              [replyMode.latest EXCEPT ![chatId] = messageId],
              replyMode.since, messageId)

callClearContext(chatId) ==
  /\ chatId \in ReplyChats
  /\ RmCommit(clearContext(RmCur, chatId), "clearContext", chatId, undefinedId,
              [replyMode.first EXCEPT ![chatId] = undefinedId],
              [replyMode.latest EXCEPT ![chatId] = undefinedId],
              [replyMode.since EXCEPT ![chatId] = "clearContext"], replyMode.recorded)

callResetFirst(chatId) ==
  /\ chatId \in ReplyChats
  /\ RmCommit(resetFirst(RmCur, chatId), "resetFirst", chatId, undefinedId,
              [replyMode.first EXCEPT ![chatId] = undefinedId],
              replyMode.latest,
              [replyMode.since EXCEPT ![chatId] = "resetFirst"], replyMode.recorded)

RmIdle ==
  replyMode =
    [contexts |-> <<>>, mode |-> "first",
     first |-> [c \in ReplyChats |-> undefinedId],
     latest |-> [c \in ReplyChats |-> undefinedId],
     since |-> [c \in ReplyChats |-> "new"], recorded |-> 0, calls |-> 0,
     last |-> [op |-> "new", chatId |-> 0, ret |-> undefinedId,
               pre |-> [first |-> [c \in ReplyChats |-> undefinedId], mode |-> "first",
                        replyTo |-> [c \in ReplyChats |-> undefinedId]]]]

\* ---------------------------------- TelegramSubscriptionManager: responses
ResponseChats == {1, 2}
ResponseEvents == {[type |-> "result", success |-> TRUE],
                   [type |-> "result", success |-> FALSE],
                   [type |-> "error", success |-> FALSE]}

\* activeResponse is <<>> for null, else one record; a timeout is known by the
\* id of the placeholder message it was set for.
subscribe_chat(p, chatId) ==
  IF chatId \in DOMAIN p.subscriptions THEN p
  ELSE [p EXCEPT !.subscriptions = (chatId :> [activeResponse |-> <<>>]) @@ @]

\* TelegramSubscriptionManager.startActiveResponse
startActiveResponse(p, chatId, messageId) ==
  IF chatId \notin DOMAIN p.subscriptions THEN p
  ELSE LET existing == p.subscriptions[chatId].activeResponse
           cleared == IF existing # <<>>
                        THEN {t \in p.timeouts : t.id # existing[1].timeout}
                        ELSE p.timeouts
       IN [p EXCEPT
             !.timeouts = cleared \cup {[id |-> messageId, chatId |-> chatId]},
             !.subscriptions[chatId].activeResponse =
                <<[messageId |-> messageId, timeout |-> messageId]>>]

\* TelegramSubscriptionManager.handleMessage for a result or an error, up to
\* its first await: the timeout is cleared and the handler is suspended, or
\* the event changes nothing.
subscription_handleMessage(p, chatId, message) ==
  IF chatId \notin DOMAIN p.subscriptions THEN p
  ELSE LET activeResponse == p.subscriptions[chatId].activeResponse
           handled ==
             CASE message.type = "result" -> activeResponse # <<>> /\ message.success
               [] message.type = "error" -> activeResponse # <<>>
               [] OTHER -> FALSE
       IN IF handled
            THEN [p EXCEPT
                    !.timeouts = {t \in @ : t.id # activeResponse[1].timeout},
                    !.suspended = @ \cup {[kind |-> message.type, chatId |-> chatId,
                                           n |-> p.handlers + 1]},
                    !.handlers = @ + 1]
            ELSE p

\* The statement after the last await of a handler or of the timeout
\* callback: subscription.activeResponse = null.
subscription_resume(p, h) ==
  [p EXCEPT !.subscriptions[h.chatId].activeResponse = <<>>,
            !.suspended = @ \ {h}]

\* The callback of the response timeout, up to its first await.
responseTimeout(p, t) ==
  LET q == [p EXCEPT !.timeouts = @ \ {t}]
  IN IF t.chatId \in DOMAIN q.subscriptions
          /\ q.subscriptions[t.chatId].activeResponse # <<>>
       THEN [q EXCEPT !.suspended = @ \cup {[kind |-> "timeout", chatId |-> t.chatId,
                                              n |-> q.handlers + 1]},
                      !.handlers = @ + 1]
       ELSE q

RsCur == [subscriptions |-> responses.subscriptions, timeouts |-> responses.timeouts,
          suspended |-> responses.suspended, handlers |-> responses.handlers]

notResponses == <<convVars, regVars, fbVars, mediaGroups, updateTracker, replyMode, outbox>>

\* done says that the handling of the event of this step has finished: it
\* had nothing to await, or this step is its resumption. Suspended handlers
\* are numbered in the order they started.
RsCommit(p, op, chatId, success, done, processing, started) ==
  /\ p.handlers <= MaxHandlers
  /\ responses' =
       [subscriptions |-> p.subscriptions, timeouts |-> p.timeouts,
        suspended |-> p.suspended, handlers |-> p.handlers,
        processing |-> processing, started |-> started,
        last |-> [op |-> op, chatId |-> chatId, success |-> success, done |-> done,
                  overlapped |-> \E h \in responses.suspended : h.chatId = chatId]]
  /\ UNCHANGED notResponses

\* processMessage of a chat's message, from startActiveResponse on: the
\* placeholder has been sent, the conversation of the chat is given the
\* message and either starts a turn or, being busy, broadcasts an error.
botMessage(chatId) ==
  /\ responses.started < MaxResponses
  /\ LET messageId == responses.started + 1
         p == startActiveResponse(subscribe_chat(RsCur, chatId), chatId, messageId)
     IN IF responses.processing[chatId]
          THEN RsCommit(subscription_handleMessage(
                          p, chatId, [type |-> "error", success |-> FALSE]),
                        "busy", chatId, FALSE, FALSE, responses.processing, messageId)
          ELSE RsCommit(p, "start", chatId, FALSE, FALSE,
                        [responses.processing EXCEPT ![chatId] = TRUE], messageId)

\* The conversation of the chat broadcasts the result of its turn, or an
\* error of its message loop.
deliver(chatId, message) ==
  /\ responses.processing[chatId]
  /\ chatId \in DOMAIN responses.subscriptions
  /\ LET p == subscription_handleMessage(RsCur, chatId, message)
     IN RsCommit(p, message.type, chatId, message.success,
                 p.handlers = responses.handlers,
                 IF message.type = "result"
                   THEN [responses.processing EXCEPT ![chatId] = FALSE]
                   ELSE responses.processing,
                 responses.started)

responseTimeoutFires(id) ==
  \E t \in responses.timeouts :
    /\ t.id = id
    /\ LET p == responseTimeout(RsCur, t)
       IN RsCommit(p, "timeout", t.chatId, FALSE, p.handlers = responses.handlers,
                   responses.processing, responses.started)

handlerResumes(n) ==
  \E h \in responses.suspended :
    /\ h.n = n
    /\ RsCommit(subscription_resume(RsCur, h), h.kind, h.chatId, h.kind = "result",
                TRUE, responses.processing, responses.started)

RsIdle ==
  responses =
    [subscriptions |-> <<>>, timeouts |-> {}, suspended |-> {}, handlers |-> 0,
     processing |-> [c \in ResponseChats |-> FALSE], started |-> 0,
     last |-> [op |-> "new", chatId |-> 0, success |-> FALSE, done |-> FALSE,
               overlapped |-> FALSE]]

\* ------------------------------------- two conversations over one outbox
OutboxConvs == {1, 2}
MaxOutboxTurns == 3

\* What snapshotMediaDirectory and findNewMediaFiles of conversation c see:
\* getMediaPath answers config.mediaPath for every ManagedSession, the
\* snapshot is a field of each.
ObView(c) == [mediaDir |-> outbox.mediaDir,
              mediaSnapshotBeforeMessage |-> outbox.snapshot[c]]

notOutbox == <<convVars, regVars, fbVars, mediaGroups, updateTracker, replyMode,
               responses>>

\* ManagedSession.sendMessage of conversation c, accepted: the snapshot is
\* taken and the turn starts.
outboxSend(c) ==
  /\ outbox.turns < MaxOutboxTurns
  /\ ~outbox.processing[c]
  /\ outbox' = [outbox EXCEPT
                  !.snapshot[c] = snapshotMediaDirectory(ObView(c)).mediaSnapshotBeforeMessage,
                  !.processing[c] = TRUE,
                  !.turns = @ + 1,
                  !.last = [op |-> "send", conv |-> c, files |-> <<>>]]
  /\ UNCHANGED notOutbox

\* The engine of conversation c, in its turn, writes file f under mediaPath.
outboxFileAppears(c, f) ==
  /\ outbox.processing[c]
  /\ f \notin outbox.mediaDir
  /\ outbox' = [outbox EXCEPT
                  !.mediaDir = @ \cup {f},
                  !.writer = (f :> c) @@ @,
                  !.last = [op |-> "fileAppears", conv |-> c, files |-> <<f>>]]
  /\ UNCHANGED notOutbox

\* handleSDKMessage of conversation c for the result of its turn: on success
\* every new file is announced by a file_delivery and attached.
outboxResult(c, success) ==
  /\ outbox.processing[c]
  /\ LET newFiles == IF success THEN findNewMediaFiles(ObView(c)) ELSE <<>>
     IN outbox' = [outbox EXCEPT
                     !.delivered[c] = @ \cup Range(newFiles),
                     !.processing[c] = FALSE,
                     !.last = [op |-> "result", conv |-> c, files |-> newFiles]]
  /\ UNCHANGED notOutbox

ObIdle ==
  outbox = [mediaDir |-> {}, snapshot |-> [c \in OutboxConvs |-> {}],
            processing |-> [c \in OutboxConvs |-> FALSE],
            delivered |-> [c \in OutboxConvs |-> {}], writer |-> <<>>, turns |-> 0,
            last |-> [op |-> "new", conv |-> 0, files |-> <<>>]]

RegIdle ==
  /\ sessions = <<>>
  /\ clientSessions = <<>>
  /\ dbSessions = <<>>
  /\ regLast = [op |-> "new", name |-> <<>>, threw |-> FALSE, ret |-> "none",
                emitted |-> 0, client |-> Null, error |-> "none", session |-> 0,
                pre |-> [sessions |-> <<>>, clientSessions |-> <<>>, dbSessions |-> <<>>]]
  /\ messageSessions = {}
  /\ telegram = [subscriptions |-> <<>>, sending |-> {}, started |-> 0]
  /\ deletedNames = {}

Init == ConvInit /\ RegIdle /\ FbIdle /\ MgIdle /\ UtIdle /\ RmIdle /\ RsIdle /\ ObIdle

LoopIds == 1..MaxSends
EngineIds == 1..(MaxFaults + 1)
EngineOf(i) == IF i \in DOMAIN loops THEN loops[i] ELSE 1

\* The state machine with no subscriber attached, for two calls of
\* sendMessage: a broadcast calls nobody and is recorded in log.
CoreSends == 2
Next ==
  \/ hist.sends < CoreSends /\ sendMessage({})
  \/ \E i \in LoopIds : \E m \in EngineMessages(EngineOf(i), engines[EngineOf(i)]) :
       loopNextValue(i, m, {})
  \/ \E i \in LoopIds : loopNextDone(i)
  \/ \E i \in LoopIds : loopNextThrows(i, {})
  \/ \E e \in EngineIds : engineEnds(e)
  \/ \E e \in EngineIds : engineCrashes(e)
  \/ resetTimerFires
  \/ stopGeneration
  \/ \E i \in 1..MaxStops : interruptResolves(i)
  \/ \E i \in 1..MaxStops : interruptRejects(i)

Spec == Init /\ [][Next]_vars

\* Three calls of sendMessage against engines whose stream neither ends nor
\* raises: sends, stops and resets interleave with the engine's messages.
NextOverlap ==
  \/ sendMessage({})
  \/ \E i \in LoopIds : \E m \in EngineMessages(EngineOf(i), engines[EngineOf(i)]) :
       loopNextValue(i, m, {})
  \/ resetTimerFires
  \/ stopGeneration
  \/ \E i \in 1..MaxStops : interruptResolves(i)
  \/ \E i \in 1..MaxStops : interruptRejects(i)

SpecOverlap == Init /\ [][NextOverlap]_vars

\* Spec with an AgentSession.sendMessage that may raise, for two calls of
\* ManagedSession.sendMessage.
DispatchSends == 2
NextDispatch ==
  \/ hist.sends < DispatchSends /\ sendMessage({})
  \/ \E t \in BOOLEAN : hist.sends < DispatchSends /\ sendMessageThrows(t, {})
  \/ \E t \in BOOLEAN : sendMessageRetry(t, {})
  \/ \E i \in LoopIds : \E m \in EngineMessages(EngineOf(i), engines[EngineOf(i)]) :
       loopNextValue(i, m, {})
  \/ \E i \in LoopIds : loopNextDone(i)
  \/ \E i \in LoopIds : loopNextThrows(i, {})
  \/ \E e \in EngineIds : engineEnds(e)
  \/ \E e \in EngineIds : engineCrashes(e)
  \/ resetTimerFires
  \/ stopGeneration
  \/ \E i \in 1..MaxStops : interruptResolves(i)
  \/ \E i \in 1..MaxStops : interruptRejects(i)

SpecDispatch == Init /\ [][NextDispatch]_vars

\* The fan-out: subscribers come and go and their callbacks may throw, for
\* two calls of sendMessage.
FanSends == 2
NextFanout ==
  \/ \E c \in Clients : subscribe(c)
  \/ \E c \in Clients : unsubscribe(c)
  \/ \E F \in SUBSET Clients : hist.sends < FanSends /\ sendMessage(F)
  \/ \E i \in LoopIds, F \in SUBSET Clients :
       \E m \in EngineMessages(EngineOf(i), engines[EngineOf(i)]) :
         loopNextValue(i, m, F)
  \/ \E i \in LoopIds : loopNextDone(i)
  \/ \E i \in LoopIds, F \in SUBSET Clients : loopNextThrows(i, F)
  \/ \E e \in EngineIds : engineEnds(e)
  \/ \E e \in EngineIds : engineCrashes(e)
  \/ resetTimerFires

SpecFanout == Init /\ [][NextFanout]_vars

\* Two calls of sendMessage of which one may fail before the content is
\* forwarded, against engines that answer, end and crash.
NextPrefix ==
  \/ hist.sends < CoreSends /\ sendMessage({})
  \/ \E stage \in {"snapshot", "create"} : hist.sends < CoreSends /\ sendMessageFails(stage)
  \/ \E i \in LoopIds : \E m \in EngineMessages(EngineOf(i), engines[EngineOf(i)]) :
       loopNextValue(i, m, {})
  \/ \E i \in LoopIds : loopNextDone(i)
  \/ \E e \in EngineIds : engineEnds(e)
  \/ stopGeneration
  \/ \E i \in 1..MaxStops : interruptResolves(i)

SpecPrefix == Init /\ [][NextPrefix]_vars

\* A conversation with a subscriber is closed by the registry at any moment
\* of its turns; the registry hands no call to a state it has dropped, while
\* the loops, timers and interrupt calls of the state go on.
ShutdownSends == 2
NextShutdown ==
  \/ ~hist.closed /\ subscribe("c1")
  \/ ~hist.closed /\ hist.sends < ShutdownSends /\ sendMessage({})
  \/ \E i \in LoopIds : \E m \in EngineMessages(EngineOf(i), engines[EngineOf(i)]) :
       loopNextValue(i, m, {})
  \/ \E i \in LoopIds : loopNextDone(i)
  \/ \E i \in LoopIds : loopNextThrows(i, {})
  \/ \E e \in EngineIds : engineEnds(e)
  \/ \E e \in EngineIds : engineCrashes(e)
  \/ resetTimerFires
  \/ ~hist.closed /\ stopGeneration
  \/ \E i \in 1..MaxStops : interruptResolves(i)
  \/ \E i \in 1..MaxStops : interruptRejects(i)
  \/ callClose

SpecShutdown == Init /\ [][NextShutdown]_vars

\* One turn under the fairness of the event loop: an armed timer fires, a
\* settled promise resumes its awaiter, and the SDK answers an interrupt call.
\* The engine owes no message.
LiveSends == 1
NextLive ==
  \/ hist.sends < LiveSends /\ sendMessage({})
  \/ \E i \in LoopIds : \E m \in EngineMessages(EngineOf(i), engines[EngineOf(i)]) :
       loopNextValue(i, m, {})
  \/ \E i \in LoopIds : loopNextDone(i)
  \/ \E i \in LoopIds : loopNextThrows(i, {})
  \/ \E e \in EngineIds : engineEnds(e)
  \/ \E e \in EngineIds : engineCrashes(e)
  \/ resetTimerFires
  \/ stopGeneration
  \/ \E i \in 1..MaxStops : interruptResolves(i)
  \/ \E i \in 1..MaxStops : interruptRejects(i)

SpecLive ==
  /\ Init
  /\ [][NextLive]_vars
  /\ WF_vars(resetTimerFires)
  /\ WF_vars(\E i \in LoopIds : loopNextDone(i))
  /\ WF_vars(\E i \in LoopIds : loopNextThrows(i, {}))
  /\ WF_vars(\E i \in 1..MaxStops : interruptResolves(i) \/ interruptRejects(i))

\* SpecLive for two sends, with an SDK that ends the output of a query whose
\* prompt iterable has finished: MessageQueue.close ends the iteration of the
\* queue, and the call of outputIterator.next() that is pending settles.
ClosedSends == 2
NextClosed ==
  \/ hist.sends < ClosedSends /\ sendMessage({})
  \/ \E i \in LoopIds : \E m \in EngineMessages(EngineOf(i), engines[EngineOf(i)]) :
       loopNextValue(i, m, {})
  \/ \E i \in LoopIds : loopNextDone(i)
  \/ \E i \in LoopIds : loopNextThrows(i, {})
  \/ \E e \in EngineIds : engineEnds(e)
  \/ \E e \in EngineIds : engineCrashes(e)
  \/ resetTimerFires
  \/ stopGeneration
  \/ \E i \in 1..MaxStops : interruptResolves(i)
  \/ \E i \in 1..MaxStops : interruptRejects(i)

SpecClosed ==
  /\ Init
  /\ [][NextClosed]_vars
  /\ WF_vars(resetTimerFires)
  /\ WF_vars(\E i \in LoopIds : loopNextDone(i))
  /\ WF_vars(\E i \in LoopIds : loopNextThrows(i, {}))
  /\ WF_vars(\E e \in EngineIds : e \in DOMAIN engines /\ engines[e].closed /\ engineEnds(e))

\* The outbox: files appear under mediaPath while turns run, are stopped
\* and complete.
OutboxSends == 2
NextOutbox ==
  \/ \E f \in Range(FilesInOrder) : fileAppears(f)
  \/ hist.sends < OutboxSends /\ sendMessage({})
  \/ \E i \in LoopIds : \E m \in EngineMessages(EngineOf(i), engines[EngineOf(i)]) :
       loopNextValue(i, m, {})
  \/ resetTimerFires
  \/ stopGeneration
  \/ \E i \in 1..MaxStops : interruptResolves(i)
  \/ \E i \in 1..MaxStops : interruptRejects(i)

SpecOutbox == Init /\ [][NextOutbox]_vars

\* One conversation behind the registry: its ManagedSession is created by
\* getOrCreateSession and stopped through SessionManager.stopGeneration.
StopSends == 1
NextStop ==
  \/ \E n \in Names : DOMAIN sessions = {} /\ callGetOrCreateSession(n)
  \/ \E n \in Names : callStopGeneration(n)
  \/ DOMAIN sessions # {} /\ hist.sends < StopSends /\ sendMessage({})
  \/ \E i \in LoopIds : \E m \in EngineMessages(EngineOf(i), engines[EngineOf(i)]) :
       loopNextValue(i, m, {})
  \/ resetTimerFires
  \/ \E i \in 1..MaxStops : interruptResolves(i)
  \/ \E i \in 1..MaxStops : interruptRejects(i)

SpecStop == Init /\ [][NextStop]_vars

\* The registry alone: calls with names a caller can pass.
NextRegistry ==
  \/ \E n \in Names : callGetOrCreateSession(n)
  \/ \E n \in Names : callGetOrCreateSessionThrows(n)
  \/ \E c \in Clients, n \in Names : callSubscribeClient(c, n)
  \/ \E c \in Clients : callUnsubscribeClient(c)
  \/ callCleanup

SpecRegistry == Init /\ [][NextRegistry]_vars

\* The registry with its lifecycle calls: conversations are created,
\* archived, pinned, renamed and deleted and take session ids.
NextLifecycle ==
  \/ \E n \in RowNames : callGetOrCreateSession(n)
  \/ \E n \in RowNames : callGetOrCreateSessionThrows(n)
  \/ \E n \in RowNames : callArchiveSession(n)
  \/ \E n \in RowNames : callUnarchiveSession(n)
  \/ \E n \in RowNames : callPinSession(n)
  \/ \E n \in RowNames : callUnpinSession(n)
  \/ \E n \in RowNames : callRenameSession(n)
  \/ \E n \in RowNames : callDeleteSession(n)
  \/ \E n \in RowNames : initCaptured(n, "t1")

SpecLifecycle == Init /\ [][NextLifecycle]_vars

\* The registry with its subscribers: clients subscribe and unsubscribe,
\* callbacks fail in broadcasts, and states are created, archived, deleted
\* and cleaned up.
NextSubscribers ==
  \/ \E n \in RowNames : callGetOrCreateSession(n)
  \/ \E c \in Clients, n \in RowNames : callSubscribeClient(c, n)
  \/ \E c \in Clients : callUnsubscribeClient(c)
  \/ \E n \in RowNames : callArchiveSession(n)
  \/ \E n \in RowNames : callDeleteSession(n)
  \/ callCleanup
  \/ \E n \in RowNames, c \in Clients : callbackThrows(n, c)

SpecSubscribers == Init /\ [][NextSubscribers]_vars

\* One client subscribes and sends while conversations are deleted and
\* states without subscribers are cleaned up.
NextSend ==
  \/ \E n \in LifeNames : callSubscribeClient("c1", n)
  \/ callUnsubscribeClient("c1")
  \/ callSendMessage("c1")
  \/ \E n \in LifeNames : callDeleteSession(n)
  \/ callCleanup

SpecSend == Init /\ [][NextSend]_vars

\* A Telegram chat subscribes, the conversation's output is sent to the chat
\* and tracked, and conversations are deleted meanwhile.
Chats == {1}
SendCalls ==
  [chatId : Chats, call : 1..MaxTelegramSends, sessionName : RowNames]
NextThreads ==
  \/ \E ch \in Chats, n \in RowNames : callTelegramSubscribe(ch, n)
  \/ \E ch \in Chats : sendNewMessageStarts(ch)
  \/ \E call \in SendCalls : sendNewMessageSent(call)
  \/ \E call \in SendCalls : sendNewMessageFails(call)
  \/ \E n \in RowNames : callDeleteSession(n)
  \/ \E n \in RowNames : callGetOrCreateSession(n)

SpecThreads == Init /\ [][NextThreads]_vars

\* The fragment buffer of the Telegram message handler: messages arrive in
\* two chats, time passes, timeouts run.
NextFragments ==
  \/ \E ch \in FbChats, text \in Texts : callAdd(ch, text)
  \/ \E id \in 1..MaxAdds : timerFires(id)
  \/ \E ch \in FbChats : callClear(ch)
  \/ tick

SpecFragments == Init /\ [][NextFragments]_vars

\* The Telegram text handler in front of the fragment buffer: texts of one
\* chat arrive, timeouts run, processMessage calls finish.
BurstChats == {1}
NextBursts ==
  \/ \E ch \in BurstChats, text \in Texts : handleMessage(ch, text)
  \/ \E id \in 1..MaxAdds : flushFires(id)
  \/ \E id \in 1..MaxAdds : processMessageEnds(id)
  \/ tick

SpecBursts == Init /\ [][NextBursts]_vars

\* The media group buffer: album items arrive in two chats under two group
\* ids or none, time passes, timeouts run.
NextMedia ==
  \/ \E ch \in MediaChats, k \in MediaGroupIds \cup {undefined} : mediaAdd(ch, k)
  \/ \E id \in 1..MaxMediaAdds : mediaTimerFires(id)
  \/ \E k \in MediaGroupIds : mediaClear(k)
  \/ tick

SpecMedia == Init /\ [][NextMedia]_vars

\* The update tracker: update ids are presented in any order, with repeats,
\* and the tracker is cleared.
NextTracker ==
  \/ \E x \in UpdateIds : callIsDuplicate(x)
  \/ callClear_tracker

SpecTracker == Init /\ [][NextTracker]_vars

\* The reply mode manager: messages of two chats are recorded, the mode is
\* switched, chats are reset and cleared, in any order.
NextReply ==
  \/ \E mode \in ReplyModes : callSetMode(mode)
  \/ \E ch \in ReplyChats : callRecordUserMessage(ch)
  \/ \E ch \in ReplyChats : callClearContext(ch)
  \/ \E ch \in ReplyChats : callResetFirst(ch)

SpecReply == Init /\ [][NextReply]_vars

\* The placeholders of two chats: messages start responses, the
\* conversations deliver results and errors, response timeouts run, and
\* suspended handlers resume, in any order.
NextResponses ==
  \/ \E ch \in ResponseChats : botMessage(ch)
  \/ \E ch \in ResponseChats, m \in ResponseEvents : deliver(ch, m)
  \/ \E id \in 1..MaxResponses : responseTimeoutFires(id)
  \/ \E n \in 1..MaxHandlers : handlerResumes(n)

SpecResponses == Init /\ [][NextResponses]_vars

\* Two conversations take turns that may overlap while their engines write
\* files under the one mediaPath.
NextShared ==
  \/ \E c \in OutboxConvs : outboxSend(c)
  \/ \E c \in OutboxConvs, f \in Range(FilesInOrder) : outboxFileAppears(c, f)
  \/ \E c \in OutboxConvs, success \in BOOLEAN : outboxResult(c, success)

SpecShared == Init /\ [][NextShared]_vars

\* ---------------------------------------------------------------- claims
HasEvent(type) == \E i \in DOMAIN log : log[i].ev.type = type
Queued(content) == \E e \in DOMAIN engines : content \in Range(engines[e].queue)
\* The turns the engine in use is working on: forwarded to it, no result yet.
InFlight ==
  IF engines[agentSession].closed \/ engines[agentSession].stream # "live"
    THEN 0
    ELSE Len(engines[agentSession].queue)

\* C1: a sendMessage made while the conversation is Processing broadcasts a
\* busy error and its content reaches no AgentSession, so that the engine in
\* use never works on more than one forwarded turn at a time.
C1_SingleFlight ==
  /\ (last.op = "sendMessage" /\ last.pre.isProcessing)
       => (Len(log) = 1 /\ log[1].ev.type = "error" /\ ~Queued(last.arg))
  /\ InFlight <= 1

\* C2: once the termination of the engine's output stream has been handled
\* (the loop of startListening has run its finally block), Processing is
\* false, and the next sendMessage is accepted, forwarded to an AgentSession
\* that is neither closed nor ended, and a loop consumes that session's output.
C2_SendAfterStreamEnd ==
  /\ (last.op = "streamDone" \/ (last.op = "resetDone" /\ last.pre.owner = "loop"))
       => ~isProcessing
  /\ (last.op = "sendMessage" /\ last.pre.ended)
       => /\ ~last.pre.isProcessing
          /\ ~engines[agentSession].closed
          /\ engines[agentSession].stream = "live"
          /\ last.arg \in Range(engines[agentSession].queue)
          /\ agentSession \in Range(loops)

\* C3: when the stream of the AgentSession in use terminates (done or an
\* exception) while a turn is in flight, an error event is broadcast, the
\* resume token is cleared in memory and in persistence and the AgentSession
\* is discarded; when the reset completes a fresh AgentSession without resume
\* token is in use and the conversation is Idle.
C3_CrashRecovery ==
  /\ (/\ last.op \in {"streamDone", "streamThrew"}
      /\ last.pre.isProcessing
      /\ last.arg = last.pre.agentSession
      /\ ~last.pre.closed)
       => /\ HasEvent("error")
          /\ sdkSessionId = Null
          /\ dbSdkSessionId = Null
          /\ engines[last.arg].closed
  /\ (last.op = "resetDone" /\ last.pre.owner = "loop")
       => /\ ~isProcessing
          /\ agentSession # last.pre.agentSession
          /\ ~engines[agentSession].closed
          /\ engines[agentSession].resume = Null

\* C9 as claimed: when interrupt() raises in stopGeneration, an error event
\* is broadcast, the resume token is cleared in memory and in persistence,
\* the AgentSession is discarded and Processing is cleared.
C9_InterruptFailureAsCrash ==
  last.op = "interruptRejected"
    => /\ HasEvent("error")
       /\ sdkSessionId = Null
       /\ dbSdkSessionId = Null
       /\ engines[last.pre.agentSession].closed
       /\ ~isProcessing

\* C9 as amended: when interrupt() raises in stopGeneration, Processing is
\* cleared at once and the AgentSession in use is closed; nothing is broadcast
\* and the resume token stays as it was, in memory and in persistence; when
\* the reset delay has elapsed a new AgentSession, constructed with that
\* token, is in use.
C9_InterruptFailureResets ==
  /\ last.op = "interruptRejected"
       => /\ ~isProcessing
          /\ log = <<>>
          /\ sdkSessionId = last.pre.sdkSessionId
          /\ dbSdkSessionId = last.pre.dbSdkSessionId
          /\ engines[last.pre.agentSession].closed
          /\ isResetting
  /\ (last.op = "resetDone" /\ last.pre.owner = "stop")
       => /\ agentSession = Len(engines)
          /\ agentSession # last.pre.agentSession
          /\ ~engines[agentSession].closed
          /\ engines[agentSession].queue = <<>>
          /\ engines[agentSession].resume = sdkSessionId
          /\ sdkSessionId = last.pre.sdkSessionId
          /\ dbSdkSessionId = last.pre.dbSdkSessionId

\* C9 witness: a reset started by a failed interrupt has completed and the
\* conversation still holds its resume token.
C9_Witness ==
  /\ last.op = "resetDone"
  /\ last.pre.owner = "stop"
  /\ sdkSessionId # Null
  /\ engines[agentSession].resume = sdkSessionId

C10_StopLeadsToIdle ==
  (last.op = "stopGeneration" /\ last.pre.isProcessing) ~> ~isProcessing

EngineEventTypes ==
  {"assistant_message", "tool_use", "result", "compacting", "compacted",
   "context_update", "file_delivery"}

\* <<turn, position of the engine's message in the turn, position in the message>>
Src(ev) ==
  CASE ev.type = "assistant_message" -> ev.content
    [] ev.type = "tool_use" -> ev.toolId
    [] OTHER -> ev.src

EngineEntries == {i \in DOMAIN log : log[i].ev.type \in EngineEventTypes}

\* C4: every event the state machine derives from an engine message of turn
\* t is broadcast after the user_message of t, to every client that got that
\* user_message and has stayed subscribed; the events of one engine message
\* go out in the order of its content; after the result of a turn only the
\* file deliveries of that result follow, and Processing is false once the
\* result has been handled.
C4_TurnOrder ==
  last.op = "handleSDKMessage" =>
    /\ \A i \in EngineEntries :
         /\ Src(log[i].ev)[1] \in DOMAIN hist.heard
         /\ hist.heard[Src(log[i].ev)[1]] \subseteq log[i].called
         /\ Src(log[i].ev)[2] = last.arg
         /\ log[i].ev.type # "result"
              => Queued(Src(log[i].ev)[1]) \/ HasEvent("result")
         /\ log[i].ev.type = "result"
              => /\ \A j \in (i + 1)..Len(log) : log[j].ev.type = "file_delivery"
                 /\ ~Queued(Src(log[i].ev)[1])
                 /\ ~isProcessing
    /\ \A i, j \in EngineEntries : i < j => Src(log[i].ev)[3] < Src(log[j].ev)[3]
    /\ DOMAIN log = EngineEntries

\* C4 witness: an assistant message with a tool_use block and a text block was
\* handled for a turn whose user_message a client heard, and that client is
\* still subscribed.
C4_Witness ==
  /\ last.op = "handleSDKMessage"
  /\ Len(log) = 2
  /\ log[1].ev.type = "tool_use"
  /\ log[2].ev.type = "assistant_message"
  /\ hist.heard[Src(log[1].ev)[1]] # {}

\* C5: when the callback of a subscriber is handed a user_message or an
\* assistant_message, the Message is in the messages table already.
C5_StoredBeforeBroadcast ==
  \A i \in DOMAIN log :
    log[i].ev.type \in {"user_message", "assistant_message"} => log[i].found

\* C5 witness: an assistant_message was handed to a subscriber.
C5_Witness ==
  \E i \in DOMAIN log :
    log[i].ev.type = "assistant_message" /\ log[i].called # {} /\ log[i].found

\* C6: every broadcast calls every client subscribed at that moment, whoever
\* throws; a client whose callback threw is no longer subscribed and gets no
\* later event, the others stay; no error event is broadcast for the failure
\* and the operation that broadcast runs to its end.
C6_ThrowingSubscriberDropped ==
  /\ \A i \in DOMAIN log :
       log[i].called = IF i = 1 THEN Range(last.pre.subscribers)
                                ELSE log[i - 1].called \ log[i - 1].threw
  /\ log # <<>> => Range(subscribers) = log[Len(log)].called \ log[Len(log)].threw
  /\ HasEvent("error")
       => \/ last.op = "sendMessage" /\ last.pre.isProcessing
          \/ last.op = "streamThrew"
  /\ (last.op = "sendMessage" /\ ~last.pre.isProcessing)
       => /\ HasEvent("user_message")
          /\ last.pre.closed \/ last.arg \in Range(engines[agentSession].queue)
          /\ last.pre.closed \/ (isProcessing /\ isListening)
  /\ (last.op = "handleSDKMessage" /\ HasEvent("result")) => ~isProcessing
  /\ last.op = "streamThrew" => HasEvent("error") /\ sdkSessionId = Null

\* C6 witness: two subscribers, the callback of the first threw on a
\* user_message, the second got it and is the only subscriber left.
C6_Witness ==
  /\ last.op = "sendMessage"
  /\ Len(last.pre.subscribers) = 2
  /\ Len(log) = 1
  /\ log[1].ev.type = "user_message"
  /\ log[1].threw = {last.pre.subscribers[1]}
  /\ subscribers = <<last.pre.subscribers[2]>>

\* C7: the registry never holds two ManagedSessions with the same
\* conversation id, and every ManagedSession reports the name it is
\* registered under.
C7_OneMachinePerConversation ==
  /\ \A k1, k2 \in DOMAIN sessions :
       sessions[k1].sessionId = sessions[k2].sessionId => k1 = k2
  /\ \A k \in DOMAIN sessions : sessions[k].sessionName = k

\* C11: ManagedSession.stopGeneration returns false exactly when the
\* conversation is not Processing at the call, and then calls no interrupt()
\* and changes nothing; every call that found it Processing returns true;
\* SessionManager.stopGeneration returns false, and changes nothing, for a
\* name that is not in the registry.
C11_StopReturnsApplicable ==
  /\ last.op = "stopGeneration"
       => /\ (last.arg = "false") <=> ~last.pre.isProcessing
          /\ last.arg = "false" => (Snap(Cur) = last.pre /\ log = <<>>)
          /\ last.arg = "pending"
               => (Len(stops) = last.pre.stops + 1 /\ stopGenerationReturned = "none")
  /\ last.op \in {"interruptResolved", "resetDone"} /\ last.pre.stops > Len(stops)
       => stopGenerationReturned = "true"
  /\ (last.op = "resetDone" /\ last.pre.owner = "stop") => stopGenerationReturned = "true"
  /\ stopGenerationReturned = "false" => (last.op = "stopGeneration" /\ ~last.pre.isProcessing)
  /\ regLast.op = "stopGeneration"
       => /\ regLast.name \notin DOMAIN regLast.pre.sessions
          /\ regLast.ret = "false"
          /\ ~regLast.threw
          /\ sessions = regLast.pre.sessions
          /\ clientSessions = regLast.pre.clientSessions
          /\ dbSessions = regLast.pre.dbSessions

\* C11 witness: the conversation is registered, a turn has completed, and a
\* stopGeneration on the Idle conversation returned false.
C11_Witness ==
  /\ DOMAIN sessions # {}
  /\ last.op = "stopGeneration"
  /\ stopGenerationReturned = "false"
  /\ hist.sends = 1
  /\ ~isProcessing

Deliveries(f) ==
  {i \in DOMAIN log : log[i].ev.type = "file_delivery" /\ log[i].ev.filePath = f}

\* C12: when the result of a turn, success or failure, has been handled,
\* every file that is in the directory and was not in the snapshot taken at
\* the sendMessage of that turn has exactly one file_delivery event, and a
\* file of the snapshot has none.
C12_NewFilesDelivered ==
  (last.op = "handleSDKMessage" /\ HasEvent("result"))
    => LET r == CHOOSE i \in DOMAIN log : log[i].ev.type = "result"
           new == mediaDir \ hist.snaps[Src(log[r].ev)[1]]
       IN \A f \in Range(FilesInOrder) :
            Cardinality(Deliveries(f)) = IF f \in new THEN 1 ELSE 0

SubscribedIn(c) == {k \in DOMAIN sessions : c \in sessions[k].subscribers}

\* C13: a client is in the subscriber map of at most one ManagedSession of
\* the registry; subscribeClient(c, B) leaves c bound to B, subscribed to the
\* ManagedSession registered under B and to no other; unsubscribeClient(c)
\* leaves c unbound and subscribed nowhere.
C13_OneBindingPerClient ==
  /\ \A c \in Clients : Cardinality(SubscribedIn(c)) <= 1
  /\ \A c \in DOMAIN clientSessions : SubscribedIn(c) \subseteq {clientSessions[c]}
  /\ regLast.op = "subscribeClient"
       => /\ ~regLast.threw
          /\ regLast.client \in DOMAIN clientSessions
          /\ clientSessions[regLast.client] = regLast.name
          /\ SubscribedIn(regLast.client) = {regLast.name}
  /\ regLast.op = "unsubscribeClient"
       => /\ regLast.client \notin DOMAIN clientSessions
          /\ SubscribedIn(regLast.client) = {}

\* C14: SessionManager.sendMessage(clientId, content, origin) hands the content
\* to exactly the state of the conversation the client is bound to; with no
\* binding it raises 'not subscribed', with a binding to a conversation that
\* is no longer in the registry it raises 'not found', and in both failures
\* no state in memory and no row changes and nothing is emitted.
C14_SendForwardsToBound ==
  regLast.op = "sendMessage" =>
    LET c == regLast.client
        pre == regLast.pre
        same == /\ sessions = pre.sessions
                /\ dbSessions = pre.dbSessions
                /\ clientSessions = pre.clientSessions
                /\ regLast.emitted = 0
    IN IF c \notin DOMAIN pre.clientSessions
         THEN regLast.threw /\ regLast.error = "is not subscribed to any session" /\ same
       ELSE IF pre.clientSessions[c] \notin DOMAIN pre.sessions
         THEN regLast.threw /\ regLast.error = "not found" /\ same
       ELSE /\ ~regLast.threw
            /\ sessions = [pre.sessions EXCEPT ![pre.clientSessions[c]].inbox =
                              Append(@, [content |-> "hi", source |-> "web"])]
            /\ dbSessions = pre.dbSessions
            /\ clientSessions = pre.clientSessions

\* C15: getOrCreateSession(name) returns the state registered under name and
\* emits nothing when there is one; when there is none it registers exactly
\* one new state, built with the session id persisted for the conversation,
\* returns it and emits sessions_changed exactly once.
C15_GetOrCreateOnce ==
  regLast.op = "getOrCreateSession" =>
    LET n == regLast.name
        pre == regLast.pre
        persisted == IF HasRow(pre.dbSessions, n)
                       THEN sessionRepo_getByName(pre.dbSessions, n).sdk_session_id
                       ELSE Null
    IN IF n \in DOMAIN pre.sessions
         THEN /\ ~regLast.threw
              /\ regLast.session = pre.sessions[n].obj
              /\ sessions = pre.sessions
              /\ regLast.emitted = 0
         ELSE /\ ~regLast.threw
              /\ DOMAIN sessions = DOMAIN pre.sessions \cup {n}
              /\ \A k \in DOMAIN pre.sessions : sessions[k] = pre.sessions[k]
              /\ \A k \in DOMAIN pre.sessions : sessions[n].obj # pre.sessions[k].obj
              /\ regLast.session = sessions[n].obj
              /\ sessions[n].sdkSessionId = persisted
              /\ regLast.emitted = 1

\* C16: once deleteSession(n) has been called and no conversation named n
\* exists, neither as a row nor as a state in memory, no row of
\* telegram_message_sessions resolves a (chat id, message id) to n.
C16_DeletedNameUnmapped ==
  \A n \in deletedNames :
    (~HasRow(dbSessions, n) /\ n \notin DOMAIN sessions)
      => \A m \in messageSessions : m.session_name # n

\* The row named n has, after a lifecycle call, what the call is to store.
Stored(op, db, n) ==
  IF op = "deleteSession" THEN ~HasRow(db, n)
  ELSE /\ HasRow(db, n)
       /\ LET row == sessionRepo_getByName(db, n)
          IN CASE op = "archiveSession" -> row.archived /\ ~row.pinned
               [] op = "unarchiveSession" -> ~row.archived
               [] op = "pinSession" -> row.pinned
               [] op = "unpinSession" -> ~row.pinned
               [] op = "renameSession" -> row.title = "title"

\* C17: archive, unarchive, pin, unpin, rename and delete return true exactly
\* when the row named n was there to be changed, and then the row carries
\* the change; they emit sessions_changed exactly when they return true;
\* archive and delete leave no state registered under n; a call that
\* returns false leaves the table and the states in memory as they were.
C17_LifecycleResult ==
  regLast.op \in {"archiveSession", "unarchiveSession", "pinSession", "unpinSession",
                  "renameSession", "deleteSession"} =>
    LET n == regLast.name
        pre == regLast.pre
    IN /\ regLast.ret = (IF HasRow(pre.dbSessions, n) THEN "true" ELSE "false")
       /\ regLast.ret = "true" => Stored(regLast.op, dbSessions, n)
       /\ regLast.emitted = (IF regLast.ret = "true" THEN 1 ELSE 0)
       /\ regLast.op \in {"archiveSession", "deleteSession"} => n \notin DOMAIN sessions
       /\ regLast.ret = "false" => dbSessions = pre.dbSessions /\ sessions = pre.sessions

\* C18: add(chatId, messageId, text) returns false and leaves no buffer for
\* the chat exactly when the text is shorter than the threshold and the chat
\* has no buffer pending; otherwise it returns true and the text is the
\* buffer's last fragment, appended to a pending buffer or first of a new
\* one; the buffers of the other chats stay as they were.
C18_AddBuffersFragments ==
  fbHist.last.op = "add" =>
    LET ch == fbHist.last.chatId
        text == fbHist.last.text
        pre == fbHist.last.pre
        pending == ch \in DOMAIN pre.buffers
        short == length(text) < fragmentThreshold
    IN /\ (fbHist.last.ret = "false") <=> (short /\ ~pending)
       /\ fbHist.last.ret = "false" => ch \notin DOMAIN buffers /\ timers = pre.timers
       /\ fbHist.last.ret = "true" =>
            /\ ch \in DOMAIN buffers
            /\ buffers[ch].fragments =
                 (IF pending THEN Append(pre.buffers[ch].fragments, text) ELSE <<text>>)
       /\ \A c \in FbChats \ {ch} :
            /\ (c \in DOMAIN buffers) <=> (c \in DOMAIN pre.buffers)
            /\ c \in DOMAIN buffers => buffers[c] = pre.buffers[c]

\* A short text joins the pending buffer of its chat while the other chat
\* has a buffer pending too.
C18_Witness ==
  /\ fbHist.last.op = "add"
  /\ fbHist.last.ret = "true"
  /\ length(fbHist.last.text) < fragmentThreshold
  /\ fbHist.last.chatId \in DOMAIN fbHist.last.pre.buffers
  /\ \E c \in FbChats \ {fbHist.last.chatId} : c \in DOMAIN buffers

\* The texts that arrived for a chat, one after the other.
RECURSIVE ArrivedText(_)
ArrivedText(arrived) ==
  IF arrived = <<>> THEN <<>> ELSE Head(arrived).text \o ArrivedText(Tail(arrived))

\* C19: when a timeout runs, the flush callback is called exactly once, with
\* the chat id, the texts that arrived for the chat since its buffer was
\* started, concatenated in arrival order, and the message id of the first
\* of them; the chat's buffer is gone afterwards.
C19_FlushOnExpiry ==
  fbHist.last.op = "flush" =>
    LET ch == fbHist.last.chatId
        pre == fbHist.last.pre
    IN /\ pre.arrived[ch] # <<>>
       /\ fbHist.flushed =
            Append(pre.flushed,
                   [chatId |-> ch, combinedText |-> ArrivedText(pre.arrived[ch]),
                    firstMessageId |-> pre.arrived[ch][1].messageId])
       /\ ch \notin DOMAIN buffers

\* A buffer of two different fragments or more is flushed.
C19_Witness ==
  /\ fbHist.last.op = "flush"
  /\ Len(fbHist.last.pre.arrived[fbHist.last.chatId]) >= 2
  /\ fbHist.last.pre.arrived[fbHist.last.chatId][1].text
       # fbHist.last.pre.arrived[fbHist.last.chatId][2].text
  /\ fbHist.flushed # <<>>

TimersOf(ts, c) == {t \in ts : t.chatId = c}

\* C20: a chat has one timeout exactly while it has a buffer pending and none
\* otherwise; an add to a pending buffer removes the buffer's timeout and
\* sets one that is due a full flushDelay after the add; and a flush runs no
\* earlier than flushDelay after the fragment that arrived last.
C20_DebounceRestarts ==
  /\ \A c \in FbChats :
       Cardinality(TimersOf(timers, c)) = (IF c \in DOMAIN buffers THEN 1 ELSE 0)
  /\ (fbHist.last.op = "add" /\ fbHist.last.chatId \in DOMAIN fbHist.last.pre.buffers) =>
       /\ TimersOf(timers, fbHist.last.chatId) \cap fbHist.last.pre.timers = {}
       /\ \A t \in TimersOf(timers, fbHist.last.chatId) :
            t.due = fbHist.last.at + flushDelay
  /\ fbHist.last.op = "flush" =>
       fbHist.last.at >=
         fbHist.last.pre.buffers[fbHist.last.chatId].lastUpdate + flushDelay

\* A fragment arrives after some of the window has passed and before the
\* timeout is due.
C20_Witness ==
  /\ fbHist.last.op = "add"
  /\ fbHist.last.chatId \in DOMAIN fbHist.last.pre.buffers
  /\ \E t \in TimersOf(fbHist.last.pre.timers, fbHist.last.chatId) :
       /\ fbHist.last.at < t.due
       /\ fbHist.last.at > fbHist.last.pre.buffers[fbHist.last.chatId].lastUpdate

\* C21: clear(chatId) leaves the chat with no buffer and no timeout and calls
\* no flush callback; the other chats keep their buffers and timeouts; and
\* no flush callback ever carries a message that was in a cleared buffer.
C21_ClearDiscards ==
  /\ fbHist.last.op = "clear" =>
       LET ch == fbHist.last.chatId
           pre == fbHist.last.pre
       IN /\ ch \notin DOMAIN buffers
          /\ TimersOf(timers, ch) = {}
          /\ fbHist.flushed = pre.flushed
          /\ \A c \in FbChats \ {ch} :
               /\ (c \in DOMAIN buffers) <=> (c \in DOMAIN pre.buffers)
               /\ c \in DOMAIN buffers => buffers[c] = pre.buffers[c]
               /\ TimersOf(timers, c) = TimersOf(pre.timers, c)
  /\ \A i \in DOMAIN fbHist.flushed : \A d \in fbHist.discarded :
       fbHist.flushed[i].firstMessageId # d.messageId

\* A chat's buffer is flushed after the other chat's pending buffer was
\* cleared and its window has passed.
C21_Witness ==
  /\ fbHist.last.op = "flush"
  /\ \E d \in fbHist.discarded :
       /\ d.chatId # fbHist.last.chatId
       /\ d.chatId \notin DOMAIN buffers
  /\ clock >= flushDelay + flushDelay

\* The times a flush callback's arguments reached session.sendMessage, and
\* whether a processMessage call for them is still suspended.
Forwards(fl) ==
  Cardinality({i \in DOMAIN handler.forwarded :
                 /\ handler.forwarded[i].chatId = fl.chatId
                 /\ handler.forwarded[i].originalMessageId = fl.firstMessageId
                 /\ handler.forwarded[i].text = fl.combinedText})
Processing(fl) ==
  \E c \in handler.processing :
    c.chatId = fl.chatId /\ c.originalMessageId = fl.firstMessageId /\ c.text = fl.combinedText

\* C22: every burst the fragment buffer has flushed is either being processed
\* or has been forwarded to session.sendMessage, once, as the combined text;
\* none is dropped and none is forwarded twice.
C22_BurstForwardedOnce ==
  \A i \in DOMAIN fbHist.flushed :
    LET fl == fbHist.flushed[i]
    IN IF Processing(fl) THEN Forwards(fl) = 0 ELSE Forwards(fl) = 1

\* C23: an add without a group id returns false and changes nothing; an add
\* with one returns true and leaves the group with exactly one timeout, due
\* a full mediaFlushDelay after the add; when a timeout runs, the callback is
\* called once with the items that arrived for the group, in arrival order,
\* the chat id and the message id of the first of them, no earlier than
\* mediaFlushDelay after the last of them, and the group is gone.
C23_MediaGroupFlushedOnce ==
  LET l == mediaGroups.last
      k == l.mediaGroupId
  IN /\ (l.op = "add" /\ k = undefined) =>
          /\ l.ret = "false"
          /\ mediaGroups.groups = l.pre.groups
          /\ mediaGroups.timers = l.pre.timers
     /\ (l.op = "add" /\ k # undefined) =>
          /\ l.ret = "true"
          /\ k \in DOMAIN mediaGroups.groups
          /\ {t.due : t \in {u \in mediaGroups.timers : u.mediaGroupId = k}}
               = {l.at + mediaFlushDelay}
          /\ Cardinality({u \in mediaGroups.timers : u.mediaGroupId = k}) = 1
     /\ l.op = "flush" =>
          LET arrived == l.pre.arrived[k]
          IN /\ arrived # <<>>
             /\ Len(mediaGroups.flushed) = Len(l.pre.flushed) + 1
             /\ SubSeq(mediaGroups.flushed, 1, Len(l.pre.flushed)) = l.pre.flushed
             /\ LET group == mediaGroups.flushed[Len(mediaGroups.flushed)]
                IN /\ group.chatId = arrived[1].chatId
                   /\ group.firstMessageId = arrived[1].messageId
                   /\ [i \in DOMAIN group.items |-> group.items[i].messageId]
                        = [i \in DOMAIN arrived |-> arrived[i].messageId]
             /\ l.at >= arrived[Len(arrived)].at + mediaFlushDelay
             /\ k \notin DOMAIN mediaGroups.groups

\* A group of two items, the second of which arrived inside the window of
\* the first, is flushed.
C23_Witness ==
  /\ mediaGroups.last.op = "flush"
  /\ LET arrived == mediaGroups.last.pre.arrived[mediaGroups.last.mediaGroupId]
     IN /\ Len(arrived) >= 2
        /\ arrived[2].at > arrived[1].at
        /\ arrived[2].at < arrived[1].at + mediaFlushDelay
        /\ Len(mediaGroups.flushed[Len(mediaGroups.flushed)].items) = Len(arrived)

\* The last n elements of a sequence.
LastN(q, n) == IF Len(q) <= n THEN q ELSE SubSeq(q, Len(q) - n + 1, Len(q))

\* C24: isDuplicate(x) returns false when x was not presented since the last
\* clear, true when x is tracked, and a call that returns true leaves the
\* tracked ids, their order and the size as they were.
C24_DuplicateSeenOnce ==
  LET l == updateTracker.last
  IN l.op = "isDuplicate" =>
       /\ l.updateId \notin l.pre.presented => ~l.ret
       /\ l.ret <=> l.updateId \in l.pre.processedIds
       /\ l.ret =>
            /\ updateTracker.processedIds = l.pre.processedIds
            /\ updateTracker.orderedIds = l.pre.orderedIds
            /\ size(updateTracker) = Cardinality(l.pre.processedIds)
       /\ l.updateId \in updateTracker.processedIds

\* An id is presented a third time, after another id was inserted, and is
\* still reported as a duplicate.
C24_Witness ==
  /\ updateTracker.last.op = "isDuplicate"
  /\ updateTracker.last.ret
  /\ updateTracker.last.updateId \in updateTracker.last.pre.hits
  /\ Len(updateTracker.orderedIds) = maxSize
  /\ updateTracker.orderedIds[1] = updateTracker.last.updateId

\* C25: the tracker holds exactly the last maxSize ids inserted since the last
\* clear, in insertion order, whatever duplicates were presented in between:
\* an insertion beyond capacity removes the oldest inserted id and no other,
\* and the id removed is reported as new when presented again.
C25_EvictsOldestOnly ==
  LET l == updateTracker.last
  IN /\ updateTracker.orderedIds = LastN(updateTracker.inserted, maxSize)
     /\ updateTracker.processedIds =
          {updateTracker.orderedIds[i] : i \in DOMAIN updateTracker.orderedIds}
     /\ size(updateTracker) <= maxSize
     /\ (l.op = "isDuplicate" /\ ~l.ret /\ Len(l.pre.orderedIds) = maxSize) =>
          /\ l.pre.processedIds \ updateTracker.processedIds = {l.pre.orderedIds[1]}
          /\ updateTracker.processedIds \ l.pre.processedIds = {l.updateId}
     /\ l.op = "isDuplicate" =>
          LET before == IF l.ret THEN updateTracker.inserted
                        ELSE SubSeq(updateTracker.inserted, 1,
                                    Len(updateTracker.inserted) - 1)
              kept == LastN(before, maxSize)
          IN l.ret <=> l.updateId \in {kept[i] : i \in DOMAIN kept}

\* An insertion beyond capacity evicts an id that was hit as a duplicate
\* after the ids that stay were inserted.
C25_Witness ==
  LET l == updateTracker.last
  IN /\ l.op = "isDuplicate"
     /\ ~l.ret
     /\ Len(l.pre.orderedIds) = maxSize
     /\ l.pre.orderedIds[1] \in l.pre.hits
     /\ l.pre.orderedIds[1] \notin updateTracker.processedIds
     /\ l.updateId \in l.pre.presented

\* C26: in mode "first", for a chat not reset since it was first recorded or
\* last cleared, getReplyToId is the first message id recorded for the chat
\* in that period, and a recordUserMessage of this or another chat leaves it
\* as it was.
C26_FirstStaysFirst ==
  LET l == replyMode.last
  IN replyMode.mode = "first" =>
       /\ \A c \in ReplyChats :
            (replyMode.since[c] # "resetFirst" /\ replyMode.first[c] # undefinedId) =>
               getReplyToId(RmCur, c) = replyMode.first[c]
       /\ (l.op = "recordUserMessage" /\ l.pre.mode = "first") =>
            \A c \in ReplyChats :
              l.pre.replyTo[c] # undefinedId => getReplyToId(RmCur, c) = l.pre.replyTo[c]

\* A chat's third message is recorded in mode "first" after a message of the
\* other chat, and the reply goes to the chat's first message.
C26_Witness ==
  LET l == replyMode.last
  IN /\ replyMode.mode = "first"
     /\ l.op = "recordUserMessage"
     /\ replyMode.since[l.chatId] = "new"
     /\ replyMode.latest[l.chatId] > replyMode.first[l.chatId] + 2
     /\ replyMode.first[3 - l.chatId] # undefinedId
     /\ l.ret = replyMode.first[l.chatId]

\* C27: in mode "first", once a message was recorded for a chat after its
\* resetFirst, getReplyToId and the recordUserMessage that recorded it return
\* the first message recorded since the reset.
C27_FirstAfterReset ==
  LET l == replyMode.last
  IN replyMode.mode = "first" =>
       /\ \A c \in ReplyChats :
            (replyMode.since[c] = "resetFirst" /\ replyMode.first[c] # undefinedId) =>
               getReplyToId(RmCur, c) = replyMode.first[c]
       /\ (l.op = "recordUserMessage" /\ replyMode.since[l.chatId] = "resetFirst") =>
            l.ret = replyMode.first[l.chatId]

\* C28: in mode "all" getReplyToId is the message id most recently recorded
\* for the chat, reset or not, and resetFirst changes no answer of that mode;
\* in mode "off" getReplyToId and recordUserMessage return undefined.
C28_AllLatestOffNone ==
  LET l == replyMode.last
  IN /\ replyMode.mode = "all" =>
          /\ \A c \in ReplyChats : getReplyToId(RmCur, c) = replyMode.latest[c]
          /\ l.op = "recordUserMessage" => l.ret = replyMode.latest[l.chatId]
          /\ (l.op = "resetFirst" /\ l.pre.mode = "all") =>
               \A c \in ReplyChats : getReplyToId(RmCur, c) = l.pre.replyTo[c]
     /\ replyMode.mode = "off" =>
          /\ \A c \in ReplyChats : getReplyToId(RmCur, c) = undefinedId
          /\ l.op = "recordUserMessage" => l.ret = undefinedId

\* In mode "all" a chat with two messages recorded is reset and still
\* answers with its latest message.
C28_Witness ==
  LET l == replyMode.last
  IN /\ replyMode.mode = "all"
     /\ l.op = "resetFirst"
     /\ l.pre.mode = "all"
     /\ replyMode.latest[l.chatId] # undefinedId
     /\ l.pre.first[l.chatId] # undefinedId
     /\ l.pre.first[l.chatId] # replyMode.latest[l.chatId]
     /\ getReplyToId(RmCur, l.chatId) = replyMode.latest[l.chatId]

\* C29: a subscription has an activeResponse only while its conversation is
\* processing or an event is being handled, and once the handling of a
\* result (successful or not), of an error or of a response timeout has
\* finished, the chat has no activeResponse and no response timeout pending.
C29_PlaceholderEnds ==
  LET l == responses.last
  IN /\ \A c \in DOMAIN responses.subscriptions :
          responses.subscriptions[c].activeResponse # <<>> =>
             \/ responses.processing[c]
             \/ \E h \in responses.suspended : h.chatId = c
     /\ (l.op \in {"result", "error", "timeout"} /\ l.done) =>
          /\ responses.subscriptions[l.chatId].activeResponse = <<>>
          /\ \A t \in responses.timeouts : t.chatId # l.chatId

\* C30: every event that was passed to the callback of at least one
\* subscriber has a sessionName, and it is the name of the conversation.
C30_EventsNameSession ==
  \A i \in DOMAIN log :
    log[i].called # {} =>
      /\ "sessionName" \in DOMAIN log[i].ev
      /\ log[i].ev.sessionName = sessionName

C32_OneLoopPerConversation ==
  /\ Len(loops) <= 1
  /\ ~isResetting => (isListening <=> agentSession \in Range(loops))
  /\ (last.op = "streamDone" /\ last.arg # agentSession)
       => isProcessing = last.pre.isProcessing

\* The files announced by the segment that ran last.
Announced == {log[i].ev.filePath : i \in {j \in DOMAIN log : log[j].ev.type = "file_delivery"}}

C34_TrackerWithinCapacity ==
  /\ Len(updateTracker.orderedIds) <= maxSize
  /\ size(updateTracker) <= maxSize
  /\ \A i, j \in DOMAIN updateTracker.orderedIds :
       updateTracker.orderedIds[i] = updateTracker.orderedIds[j] => i = j
  /\ updateTracker.processedIds =
       {updateTracker.orderedIds[i] : i \in DOMAIN updateTracker.orderedIds}
  /\ updateTracker.last.op = "clear" =>
       /\ updateTracker.processedIds = {}
       /\ updateTracker.orderedIds = <<>>
       /\ size(updateTracker) = 0
       /\ \A x \in UpdateIds : ~isDuplicate(UtCur, x).ret

\* A tracker that had evicted an id and was full is cleared.
C34_Witness ==
  /\ updateTracker.last.op = "clear"
  /\ Len(updateTracker.last.pre.orderedIds) = maxSize
  /\ updateTracker.last.pre.presented \ updateTracker.last.pre.processedIds # {}

\* C35: the resume token a ManagedSession holds is the sdk_session_id of its
\* conversation's row: for the conversation driven here and for every state
\* of the registry whose row exists; and the AgentSession a reset has just
\* constructed resumes from the token held at that moment.
C35_ResumeTokenPersisted ==
  /\ sdkSessionId = dbSdkSessionId
  /\ last.op = "resetDone" => engines[agentSession].resume = sdkSessionId
  /\ \A k \in DOMAIN sessions :
       \A i \in DOMAIN dbSessions :
         (~dbSessions[i].deleted /\ dbSessions[i].id = sessions[k].sessionId) =>
           sessions[k].sdkSessionId = dbSessions[i].sdk_session_id

\* C36: a client the registry binds to a name whose state is in the registry
\* is a subscriber of that state.
C36_BoundClientSubscribed ==
  \A c \in DOMAIN clientSessions :
    clientSessions[c] \in DOMAIN sessions =>
      c \in sessions[clientSessions[c]].subscribers

\* C37: once ManagedSession.close() was called, no step of the state machine
\* writes a Message or calls a subscriber's callback.
C37_ClosedIsSilent ==
  [][hist.closed =>
       /\ messages' = messages
       /\ \A i \in DOMAIN log' : log'[i].called = {}]_vars

\* C38: when sendMessage has failed before the content was forwarded, the
\* conversation is not Processing, and a sendMessage called next is accepted:
\* it writes its user Message.
C38_FailedSendNotProcessing ==
  /\ [](last.op = "sendMessageFailed" => ~isProcessing)
  /\ [][(last.op = "sendMessageFailed" /\ last'.op = "sendMessage") =>
          /\ Len(messages') = Len(messages) + 1
          /\ messages'[Len(messages')].role = "user"]_vars

\* C39: a bot message that meets a conversation already Processing a bot
\* message whose placeholder is active leaves that placeholder the chat's
\* active one, with its timeout, and starts no handler that will clear it.
C39_BusyKeepsPlaceholder ==
  [][(/\ responses'.last.op = "busy"
      /\ responses'.last.chatId \in DOMAIN responses.subscriptions
      /\ responses.subscriptions[responses'.last.chatId].activeResponse # <<>>) =>
       /\ responses'.subscriptions[responses'.last.chatId].activeResponse =
            responses.subscriptions[responses'.last.chatId].activeResponse
       /\ responses'.suspended = responses.suspended
       /\ responses'.timeouts = responses.timeouts]_vars

\* C40: a file is announced by the file_delivery of at most one conversation,
\* and a conversation announces only files written in its own turns.
C40_OutboxPerConversation ==
  /\ \A f \in outbox.mediaDir :
       Cardinality({c \in OutboxConvs : f \in outbox.delivered[c]}) <= 1
  /\ \A c \in OutboxConvs : \A f \in outbox.delivered[c] : outbox.writer[f] = c

====
